---------------------------- MODULE Spec2Model ----------------------------
(***************************************************************************)
(* SpruceDB: the LSM coordinator (src/src/database.py) over the write-ahead *)
(* log (src/src/wal.py), the skip-list memtable (src/src/skiplist.py) and   *)
(* the SSTable writer/reader (src/src/sstable.py).                          *)
(*                                                                         *)
(* Keys and values are small integers standing for strings:                *)
(*   key 0 is "", keys 1..2 are one-byte strings ordered as the integers,  *)
(*   LongKey is a string of MAX_KEY_BYTES + 1 bytes;                        *)
(*   value 0 is b"", value 1 is a one-byte string, LongValue has           *)
(*   MAX_VALUE_BYTES + 1 bytes; None is Python's None.                      *)
(* The clock counts whole seconds: every file name the program composes    *)
(* carries strftime('%Y%m%d%H%M%S') of the current time.                    *)
(* The timestamp field of entries and WAL records is left out: it is       *)
(* carried through unchanged and no operation reads it.                     *)
(***************************************************************************)
EXTENDS Integers, Sequences, FiniteSets, TLC

VARIABLES
    clock,        \* the wall clock, in seconds
    db_state,     \* "open": a Database handle with an open WAL; "closed": after close(); "down": the process stopped
    seq_no,       \* Database.seq_no
    memtable,     \* Database.memtable: the level-0 chain of the skip list, a sequence of nodes [key, value]
    wal,          \* Database.wal: [current_path, write_position, file_counter, write_file]
    wal_files,    \* base/wal/: file name <<timestamp, counter>> -> sequence of serialized records
    sst_files,    \* SSTable files: path -> [finalized, entry_count, data, index, magic, timestamp, data_size, header_crc]
    last_call,    \* history: the last API call and how it ended
    acked,        \* history: per key, the result of the last put/delete that returned normally
    here,         \* history: the keys with a put/delete that returned normally on the current handle
    dirty,        \* history: the keys whose latest put/delete raised or was interrupted
    at_end,       \* history: what the previous handle showed when it was closed or stopped
    opens,        \* history: the number of open() calls after the first
    faults,       \* history: the number of injected I/O faults
    memtable_flush_threshold, \* Configuration.memtable_flush_threshold of the handle
    sst_writer,   \* an SSTableWriter in use outside a flush, or NoWriter
    added,        \* history: path -> the entries add_entry accepted for the file
    sst_result,   \* history: how the last SSTableWriter call ended
    made,         \* the last DatabaseEntry(...) call: its arguments and the entry or the error
    wal_result,   \* history: the last call made on the WAL object itself and how it ended
    written,      \* history: segment -> the entries written to it through the WAL object
    segment,      \* a WAL segment file as bytes, the entries written to it and what read_all yielded
    opened,       \* history: the last SSTableReader(filepath) call, the file it found and how it ended
    list_call,    \* history: the last call made on a SkipList of its own
    fresh         \* history: "close"/"stop" while the handle has seen no call since open() after a close()/stop, else "no"

vars == <<clock, db_state, seq_no, memtable, wal, wal_files, sst_files,
          last_call, acked, here, dirty, at_end, opens, faults, fresh,
          memtable_flush_threshold, sst_writer, added, sst_result,
          made, wal_result, written, segment, opened, list_call>>

--------------------------------------------------------------------------
(* Bounds of the exploration *)
MaxSeq == 3
MaxClock == 1
MaxOpens == 2
MaxFaults == 1

(* Inputs *)
Keys == {1, 2}
Values == {0, 1}
LongKey == Cardinality(Keys) + 1
\* a key of exactly MAX_KEY_SIZE bytes, the longest the SSTable format permits
BigKey == LongKey + 1
LongValue == Cardinality(Values)
\* a value of exactly MAX_VALUE_BYTES bytes
BigValue == LongValue + 1
\* a key of MAX_KEY_BYTES \div 2 + 1 two-byte characters: fewer code points
\* than MAX_KEY_BYTES, more bytes
WideKey == BigKey + 1
None == 0 - 1
KeyInputs == {0} \cup Keys \cup {LongKey}
ValueInputs == Values \cup {LongValue}
Faults == {"none", "wal_write", "wal_fsync", "sst_finalize"}

(* Program constants *)
MAX_KEY_BYTES == 65536
MAX_VALUE_BYTES == 1024 * 1024
MAX_KEY_SIZE == 65536
MAX_VALUE_SIZE == 1024 * 1024
WAL_HEADER_SIZE == 29
SST_HEADER_SIZE == 50
SSTABLE_MAGIC == <<83, 80, 68, 66>>
SSTABLE_VERSION == 1
DEFAULT_INDEX_INTERVAL == 1000
\* the bytes SSTableReader._load_index reads for one index entry
INDEX_READ_CHUNK == 1024
FlushThreshold == 2

(* len(key.encode()) and len(value) of the strings the integers stand for *)
KeyBytes(k) ==
    IF k = 0 THEN 0
    ELSE IF k = LongKey THEN MAX_KEY_BYTES + 1
    ELSE IF k = BigKey THEN MAX_KEY_SIZE
    ELSE IF k = WideKey THEN 2 * (MAX_KEY_BYTES \div 2 + 1)
    ELSE 1

\* len(key): the number of code points
KeyChars(k) == IF k = WideKey THEN MAX_KEY_BYTES \div 2 + 1 ELSE KeyBytes(k)
ValueBytes(v) ==
    IF v = None \/ v = 0 THEN 0
    ELSE IF v = LongValue THEN MAX_VALUE_BYTES + 1
    ELSE IF v = BigValue THEN MAX_VALUE_BYTES
    ELSE 1

Max(a, b) == IF a >= b THEN a ELSE b

--------------------------------------------------------------------------
(* entry.py: DatabaseEntry *)

\* what search() and reader.get() return for "no entry" (Python's None)
NoEntry == [key |-> 0, sequence |-> None, entry_type |-> "NONE", value |-> None]

\* variant: a DELETE may carry a value
EntryValid_delete_with_value(key, sequence, entry_type, value) ==
    /\ KeyBytes(key) # 0
    /\ sequence >= 0
    /\ ~(entry_type = "PUT" /\ value = None)

\* variant: the key is not checked
EntryValid_any_key(key, sequence, entry_type, value) ==
    /\ sequence >= 0
    /\ ~(entry_type = "PUT" /\ value = None)
    /\ ~(entry_type = "DELETE" /\ value # None)

\* DatabaseEntry.__post_init__: TRUE when construction does not raise ValueError
EntryValid(key, sequence, entry_type, value) ==
    /\ KeyBytes(key) # 0
    /\ sequence >= 0
    /\ ~(entry_type = "PUT" /\ value = None)
    /\ ~(entry_type = "DELETE" /\ value # None)

DatabaseEntry_put(key, sequence, value) ==
    [key |-> key, sequence |-> sequence, entry_type |-> "PUT", value |-> value]

DatabaseEntry_delete(key, sequence) ==
    [key |-> key, sequence |-> sequence, entry_type |-> "DELETE", value |-> None]

is_tombstone(entry) == entry.entry_type = "DELETE"

--------------------------------------------------------------------------
(* skiplist.py: SkipList.  The chain of level 0 holds every node in key    *)
(* order; the chains of the higher levels are sub-chains of it, and what   *)
(* insert, search and the ordered traversal return depends on level 0 only.*)

\* the number of leading nodes whose key is smaller than key: where the
\* descent of insert/search stops (update[0] is that node, or the head)
RECURSIVE Predecessors(_, _)
Predecessors(list, key) ==
    IF list = <<>> \/ ~(Head(list).key < key) THEN 0
    ELSE 1 + Predecessors(Tail(list), key)

SkipList_new == <<>>

\* insert links a new node right after update[0], also when the next node
\* carries the same key: the new node comes first among the nodes of its key
SkipList_insert(list, key, value) ==
    LET p == Predecessors(list, key)
    IN  SubSeq(list, 1, p) \o <<[key |-> key, value |-> value]>> \o SubSeq(list, p + 1, Len(list))

SkipList_search(list, key) ==
    LET p == Predecessors(list, key)
    IN  IF p + 1 <= Len(list) /\ list[p + 1].key = key THEN list[p + 1].value ELSE NoEntry

\* delete unlinks the node search would find: the first node of the key
SkipList_delete(list, key) ==
    LET p == Predecessors(list, key)
    IN  IF p + 1 <= Len(list) /\ list[p + 1].key = key
        THEN SubSeq(list, 1, p) \o SubSeq(list, p + 2, Len(list))
        ELSE list

\* SkipList.size (entry count) and SkipList.__iter__ (ordered traversal) are
\* used by database.py and are not part of skiplist.py
SkipList_size(list) == Len(list)
SkipList_iter(list) == [i \in 1..Len(list) |-> list[i].value]

--------------------------------------------------------------------------
(* wal.py: WALEntry *)

OpTypeValue(op_type) == CASE op_type = "PUT" -> 1 [] op_type = "DELETE" -> 2 [] op_type = "FLUSH" -> 3
OpTypeOf(n) == CASE n = 1 -> "PUT" [] n = 2 -> "DELETE" [] n = 3 -> "FLUSH"

\* WALEntry.from_database_entry: a DELETE carries value b''
WALEntry_from_database_entry(entry) ==
    IF entry.entry_type = "PUT"
    THEN [op_type |-> "PUT", key |-> entry.key, value |-> entry.value, sequence |-> entry.sequence]
    ELSE [op_type |-> "DELETE", key |-> entry.key, value |-> 0, sequence |-> entry.sequence]

\* the FLUSH entry of write_flush_marker: key "FLUSH:<sstable_id>", value b''
WALEntry_flush(sstable_id, sequence) ==
    [op_type |-> "FLUSH", key |-> <<"FLUSH", sstable_id>>, value |-> 0, sequence |-> sequence]

\* len(key.encode()) of a WAL entry: "FLUSH:" + "sstables" + "." + 14 digits for a marker
WALKeyBytes(e) == IF e.op_type = "FLUSH" THEN 6 + 8 + 1 + 14 ELSE KeyBytes(e.key)

\* WALEntry.serialize: the framed record
WALEntry_serialize(e) ==
    [sequence |-> e.sequence, op |-> OpTypeValue(e.op_type),
     key_len |-> WALKeyBytes(e), value_len |-> ValueBytes(e.value),
     key |-> e.key, value |-> e.value]

RecordSize(r) == WAL_HEADER_SIZE + r.key_len + r.value_len

\* variant: the kind is taken from the value length, as the SSTable decoding does
WALEntry_deserialize_by_value_len(r) ==
    LET op_type == IF r.op = OpTypeValue("PUT") /\ r.value_len = 0 THEN "DELETE" ELSE OpTypeOf(r.op)
    IN  [op_type |-> op_type, key |-> r.key,
         value |-> IF op_type = "PUT" THEN r.value ELSE 0, sequence |-> r.sequence]

\* WALEntry.deserialize: DELETE and FLUSH come back with value b''
WALEntry_deserialize(r) ==
    LET op_type == OpTypeOf(r.op)
    IN  [op_type |-> op_type, key |-> r.key,
         value |-> IF op_type = "PUT" THEN r.value ELSE 0, sequence |-> r.sequence]

is_flush_marker(e) == e.op_type = "FLUSH"

\* WALEntry.to_database_entry (never applied to a FLUSH entry)
to_database_entry(e) ==
    IF e.op_type = "PUT" THEN DatabaseEntry_put(e.key, e.sequence, e.value)
    ELSE DatabaseEntry_delete(e.key, e.sequence)

--------------------------------------------------------------------------
(* wal.py: WriteAheadLog.  A WAL object is [current_path, write_position,  *)
(* file_counter, write_file]; the segment files live in wal_files, named   *)
(* <<timestamp, counter>> for "current.wal.<timestamp>.<counter>".         *)
(* The operators return the new object and the new directory content.      *)

\* open(path, 'ab+'): creates the file when it is absent, keeps its content otherwise
OpenAppend(files, path) ==
    IF path \in DOMAIN files THEN files
    ELSE [p \in DOMAIN files \cup {path} |-> IF p = path THEN <<>> ELSE files[p]]

\* open(path, 'wb') in place of 'ab+'
OpenTruncate(files, path) ==
    [p \in DOMAIN files \cup {path} |-> IF p = path THEN <<>> ELSE files[p]]

\* _get_timestamped_path and _open_next_file
WAL_open_next_file(w, files, now) ==
    LET path == <<now, w.file_counter>>
    IN  [wal |-> [current_path |-> path, write_position |-> 0,
                  file_counter |-> w.file_counter + 1, write_file |-> TRUE],
         files |-> OpenAppend(files, path)]

\* WriteAheadLog.__init__
WAL_init(files, now) ==
    WAL_open_next_file([current_path |-> <<now, 0>>, write_position |-> 0,
                        file_counter |-> 0, write_file |-> FALSE], files, now)

\* variant: close leaves the write handle in place
WAL_close_keeps_handle(w) == w

\* WriteAheadLog.close
WAL_close(w) == [w EXCEPT !.write_file = FALSE]

\* the write, flush and fsync shared by write_to_log and write_flush_marker;
\* fault "wal_write": file.write raises; "wal_fsync": os.fsync raises
WAL_append(w, files, wal_entry, fault) ==
    LET rec == WALEntry_serialize(wal_entry)
    IN  IF fault = "wal_write"
        THEN [result |-> "OSError", wal |-> w, files |-> files]
        ELSE [result |-> IF fault = "wal_fsync" THEN "IOError" ELSE "ok",
              wal |-> [w EXCEPT !.write_position = w.write_position + RecordSize(rec)],
              files |-> [files EXCEPT ![w.current_path] = Append(@, rec)]]

\* variant: the key bound is on the number of code points
WAL_write_to_log_code_points(w, files, entry, fault) ==
    IF ~w.write_file
    THEN [result |-> "RuntimeError", message |-> "WAL file not available!",
          offset |-> None, wal |-> w, files |-> files]
    ELSE IF KeyChars(entry.key) > MAX_KEY_BYTES
    THEN [result |-> "ValueError", message |-> "key exceeds max size",
          offset |-> None, wal |-> w, files |-> files]
    ELSE IF entry.entry_type = "PUT" /\ entry.value # None /\ ValueBytes(entry.value) > MAX_VALUE_BYTES
    THEN [result |-> "ValueError", message |-> "value exceeds max size",
          offset |-> None, wal |-> w, files |-> files]
    ELSE LET a == WAL_append(w, files, WALEntry_from_database_entry(entry), fault)
         IN  [result |-> a.result, message |-> "", offset |-> w.write_position,
              wal |-> a.wal, files |-> a.files]

\* WriteAheadLog.write_to_log: how it ends, the message of the exception,
\* and the offset it returns, current_position = self.write_position
WAL_write_to_log(w, files, entry, fault) ==
    IF ~w.write_file
    THEN [result |-> "RuntimeError", message |-> "WAL file not available!",
          offset |-> None, wal |-> w, files |-> files]
    ELSE IF KeyBytes(entry.key) > MAX_KEY_BYTES
    THEN [result |-> "ValueError", message |-> "key exceeds max size",
          offset |-> None, wal |-> w, files |-> files]
    ELSE IF entry.entry_type = "PUT" /\ entry.value # None /\ ValueBytes(entry.value) > MAX_VALUE_BYTES
    THEN [result |-> "ValueError", message |-> "value exceeds max size",
          offset |-> None, wal |-> w, files |-> files]
    ELSE LET a == WAL_append(w, files, WALEntry_from_database_entry(entry), fault)
         IN  [result |-> a.result, message |-> "", offset |-> w.write_position,
              wal |-> a.wal, files |-> a.files]

\* WriteAheadLog.write_flush_marker
WAL_write_flush_marker(w, files, sstable_id, sequence) ==
    IF ~w.write_file
    THEN [result |-> "RuntimeError", wal |-> w, files |-> files]
    ELSE WAL_append(w, files, WALEntry_flush(sstable_id, sequence), "none")

\* WriteAheadLog.rotate: the marker, then the next segment
WAL_rotate(w, files, sstable_id, sequence, now) ==
    LET m == WAL_write_flush_marker(w, files, sstable_id, sequence)
    IN  IF m.result # "ok" THEN m
        ELSE LET n == WAL_open_next_file(WAL_close(m.wal), m.files, now)
             IN  [result |-> "ok", wal |-> n.wal, files |-> n.files]

\* WriteAheadLog.read_all_entries on a file whose records are all complete
\* and pass the CRC: every record is yielded, in file order
read_all_entries(content) == [i \in 1..Len(content) |-> WALEntry_deserialize(content[i])]

\* the byte offset of the i-th record of a segment
RECURSIVE RecordOffset(_, _)
RecordOffset(content, i) ==
    IF i <= 1 THEN 0 ELSE RecordOffset(content, i - 1) + RecordSize(content[i - 1])

\* WriteAheadLog.read_log_entry(position) on the open segment: None at the
\* end of the file, the entry of the record that begins at position, and
\* ValueError where no record begins (incomplete data or a failed CRC)
read_log_entry(content, position) ==
    IF position >= RecordOffset(content, Len(content) + 1)
    THEN [result |-> "None", entry |-> NoEntry]
    ELSE IF \E i \in 1..Len(content) : RecordOffset(content, i) = position
    THEN [result |-> "ok",
          entry |-> WALEntry_deserialize(
                        content[CHOOSE i \in 1..Len(content) : RecordOffset(content, i) = position])]
    ELSE [result |-> "ValueError", entry |-> NoEntry]

\* WriteAheadLog.has_flush_marker_at_end
has_flush_marker_at_end(content) ==
    LET entries == read_all_entries(content)
    IN  IF entries = <<>> THEN FALSE ELSE is_flush_marker(entries[Len(entries)])

--------------------------------------------------------------------------
(* sstable.py.  An SSTable path is [dir, name, ts] for the file            *)
(* "<dir>/<name>.<ts>", dir a sequence of directory names.  A file is      *)
(* [finalized, entry_count, data, index, magic, timestamp, data_size,      *)
(* header_crc]: data the serialized entries, index the sparse index        *)
(* section, finalized whether finalize() rewrote the header and wrote      *)
(* index and footer, the other fields those of the header.                 *)

\* zlib.crc32 as a checksum with the property of CRC-32 that matters here:
\* it changes whenever one element of the data changes or the length changes
RECURSIVE WeightedSum(_, _)
WeightedSum(data, i) ==
    IF i > Len(data) THEN 0 ELSE i * (data[i] + 1) + WeightedSum(data, i + 1)

crc32(data) == WeightedSum(data, 1)

\* the header of an SSTable file without its last field, the header CRC:
\* magic, version, features (NONE), timestamp, entry count, data size
HeaderFields(file) ==
    file.magic \o <<SSTABLE_VERSION, 0, file.timestamp, file.entry_count, file.data_size>>

\* serialize_entry: TRUE when it does not raise ValueError
SerializeOk(entry) ==
    /\ KeyBytes(entry.key) <= MAX_KEY_SIZE
    /\ ValueBytes(entry.value) <= MAX_VALUE_SIZE
    /\ entry.sequence >= 0

\* serialize_entry: [sequence][key_length][key][value_length][value], b'' for a missing value
serialize_entry(entry) ==
    [sequence |-> entry.sequence, key_len |-> KeyBytes(entry.key), key |-> entry.key,
     value_len |-> ValueBytes(entry.value),
     value |-> IF entry.value = None THEN 0 ELSE entry.value]

SstEntrySize(r) == 8 + 4 + r.key_len + 4 + r.value_len

\* deserialize_entry, and the same decoding inside SSTableReader.get:
\* value_length == 0 gives a DELETE entry
deserialize_entry(r) ==
    IF r.value_len = 0 THEN DatabaseEntry_delete(r.key, r.sequence)
    ELSE DatabaseEntry_put(r.key, r.sequence, r.value)

\* SSTableWriter._get_timestamped_path: f"{base_path}.{timestamp}"
SSTable_timestamped_path(base_path, now) ==
    [dir |-> base_path.dir, name |-> base_path.name, ts |-> now]

\* SSTableWriter.__init__: open(filepath, 'wb') and the placeholder header
SSTableWriter_init(files, base_path, index_interval, now) ==
    LET filepath == SSTable_timestamped_path(base_path, now)
        empty == [finalized |-> FALSE, entry_count |-> 0, data |-> <<>>, index |-> <<>>,
                  magic |-> SSTABLE_MAGIC, timestamp |-> now, data_size |-> 0, header_crc |-> 0]
    IN  [writer |-> [filepath |-> filepath, entry_count |-> 0, last_key |-> None,
                     position |-> SST_HEADER_SIZE, index_interval |-> index_interval,
                     index_entries |-> <<>>],
         files |-> [p \in DOMAIN files \cup {filepath} |-> IF p = filepath THEN empty ELSE files[p]]]

\* add_entry without the duplicate-key check
SSTableWriter_add_entry_no_duplicate_check(writer, files, entry) ==
    IF writer.last_key # None /\ writer.last_key > entry.key
    THEN [result |-> "ValueError", writer |-> writer, files |-> files]
    ELSE
      LET indexed == IF writer.entry_count % writer.index_interval = 0
                     THEN [writer EXCEPT !.index_entries =
                               Append(@, [key |-> entry.key, file_offset |-> writer.position])]
                     ELSE writer
          rec == serialize_entry(entry)
      IN  IF ~SerializeOk(entry)
          THEN [result |-> "ValueError", writer |-> indexed, files |-> files]
          ELSE [result |-> "ok",
                writer |-> [indexed EXCEPT !.last_key = entry.key,
                                           !.entry_count = @ + 1,
                                           !.position = @ + SstEntrySize(rec)],
                files |-> [files EXCEPT ![writer.filepath].data = Append(@, rec)]]

\* SSTableWriter.add_entry
SSTableWriter_add_entry(writer, files, entry) ==
    IF writer.last_key # None /\ writer.last_key > entry.key
    THEN [result |-> "ValueError", writer |-> writer, files |-> files]
    ELSE IF writer.last_key # None /\ writer.last_key = entry.key
    THEN [result |-> "ValueError", writer |-> writer, files |-> files]
    ELSE
      LET indexed == IF writer.entry_count % writer.index_interval = 0
                     THEN [writer EXCEPT !.index_entries =
                               Append(@, [key |-> entry.key, file_offset |-> writer.position])]
                     ELSE writer
          rec == serialize_entry(entry)
      IN  IF ~SerializeOk(entry)
          THEN [result |-> "ValueError", writer |-> indexed, files |-> files]
          ELSE [result |-> "ok",
                writer |-> [indexed EXCEPT !.last_key = entry.key,
                                           !.entry_count = @ + 1,
                                           !.position = @ + SstEntrySize(rec)],
                files |-> [files EXCEPT ![writer.filepath].data = Append(@, rec)]]

\* the loop "for entry in self.memtable: writer.add_entry(entry)": stops at the first raise
RECURSIVE SSTableWriter_add_all(_, _, _)
SSTableWriter_add_all(writer, files, entries) ==
    IF entries = <<>> THEN [result |-> "ok", writer |-> writer, files |-> files]
    ELSE LET r == SSTableWriter_add_entry(writer, files, Head(entries))
         IN  IF r.result # "ok" THEN r
             ELSE SSTableWriter_add_all(r.writer, r.files, Tail(entries))

\* SSTableWriter.finalize; fault "sst_finalize": a write or the fsync raises OSError
SSTableWriter_finalize(writer, files, fault) ==
    IF fault = "sst_finalize"
    THEN [result |-> "OSError", files |-> files]
    ELSE [result |-> "ok",
          files |-> [files EXCEPT ![writer.filepath] =
                        LET header == [magic |-> SSTABLE_MAGIC, timestamp |-> @.timestamp,
                                       entry_count |-> writer.entry_count,
                                       data_size |-> writer.position - SST_HEADER_SIZE]
                        IN  [finalized |-> TRUE, entry_count |-> header.entry_count,
                             data |-> @.data, index |-> writer.index_entries,
                             magic |-> header.magic, timestamp |-> header.timestamp,
                             data_size |-> header.data_size,
                             header_crc |-> crc32(HeaderFields(header))]]]

\* variant: discard closes the file and leaves it in place
SSTableWriter_discard_keeps(writer, files) == files

\* SSTableWriter.discard: closes the file and removes it from the directory
SSTableWriter_discard(writer, files) ==
    [p \in DOMAIN files \ {writer.filepath} |-> files[p]]

\* SSTableWriter.__exit__: discard when an exception leaves the with block,
\* finalize otherwise
SSTableWriter_exit(writer, files, exc) ==
    IF exc
    THEN [called |-> "discard", result |-> "ok", files |-> SSTableWriter_discard(writer, files)]
    ELSE [called |-> "finalize", result |-> "ok",
          files |-> SSTableWriter_finalize(writer, files, "none").files]

\* the id database.py takes from writer.sstable_id: the writer's final file name
SSTableWriter_sstable_id(writer) == <<writer.filepath.name, writer.filepath.ts>>

\* IndexEntry.serialize: [key_length: 4][key][file_offset: 8]
IndexEntrySize(e) == 4 + KeyBytes(e.key) + 8

\* SSTableReader._load_metadata and _load_index: TRUE when the reader opens.
\* The magic is compared; header_crc is unpacked and not compared.  A file
\* that finalize() did not complete has no index and no footer to read: of
\* a file that holds the placeholder header alone the last bytes of the
\* header are read as a footer with index offset 0.  IndexEntry.deserialize
\* raises on an index entry that does not fit into the INDEX_READ_CHUNK
\* bytes read for it.
SSTableReader_opens(file) ==
    /\ file.magic = SSTABLE_MAGIC
    /\ file.finalized \/ file.data = <<>>
    /\ \A i \in 1..Len(file.index) : IndexEntrySize(file.index[i]) <= INDEX_READ_CHUNK

\* the file offset of the i-th record of the data region
RECURSIVE EntryOffset(_, _)
EntryOffset(data, i) ==
    IF i <= 1 THEN SST_HEADER_SIZE ELSE EntryOffset(data, i - 1) + SstEntrySize(data[i - 1])

\* SSTableReader._find_scan_start: the binary search for the largest index key <= key
RECURSIVE BinarySearch(_, _, _, _, _)
BinarySearch(index, key, left, right, start_offset) ==
    IF left > right THEN start_offset
    ELSE LET mid == (left + right) \div 2
         IN  IF index[mid + 1].key <= key
             THEN BinarySearch(index, key, mid + 1, right, index[mid + 1].file_offset)
             ELSE BinarySearch(index, key, left, mid - 1, start_offset)

\* variant: the search settles on the first index key >= key
find_scan_start_upper(file, key) ==
    IF \E i \in 1..Len(file.index) : file.index[i].key >= key
    THEN file.index[CHOOSE i \in 1..Len(file.index) :
                        /\ file.index[i].key >= key
                        /\ \A j \in 1..(i - 1) : file.index[j].key < key].file_offset
    ELSE SST_HEADER_SIZE

find_scan_start(file, key) ==
    IF file.index = <<>> THEN SST_HEADER_SIZE
    ELSE BinarySearch(file.index, key, 0, Len(file.index) - 1, SST_HEADER_SIZE)

\* the scan loop of SSTableReader.get and of _linear_scan, from record i on
RECURSIVE ScanFrom(_, _, _)
ScanFrom(data, i, key) ==
    IF i > Len(data) THEN NoEntry
    ELSE LET entry == deserialize_entry(data[i])
         IN  IF entry.key = key THEN entry
             ELSE IF entry.key > key THEN NoEntry
             ELSE ScanFrom(data, i + 1, key)

\* SSTableReader.get
SSTableReader_get(file, key) ==
    LET start_offset == find_scan_start(file, key)
        first == IF \E i \in 1..Len(file.data) : EntryOffset(file.data, i) = start_offset
                 THEN CHOOSE i \in 1..Len(file.data) : EntryOffset(file.data, i) = start_offset
                 ELSE Len(file.data) + 1
    IN  ScanFrom(file.data, first, key)

--------------------------------------------------------------------------
(* database.py: Database.  The operators work on a record                  *)
(* [seq_no, memtable, wal, wal_files, sst_files] and return the record     *)
(* after the call together with how the call ended.                        *)

\* Database.sstables_dir = base_path / "sstables"
sstables_dir == [dir |-> <<"base">>, name |-> "sstables"]

\* Path.iterdir() of a directory of SSTable files
IterDir(files, d) == {p \in DOMAIN files : p.dir = Append(d.dir, d.name)}

\* sst_files.sort(key = timestamp suffix, reverse = True)
RECURSIVE SortNewestFirst(_)
SortNewestFirst(S) ==
    IF S = {} THEN <<>>
    ELSE LET newest == CHOOSE p \in S : \A q \in S : q.ts <= p.ts
         IN  <<newest>> \o SortNewestFirst(S \ {newest})

\* variant: a reader that fails to open ends the search
RECURSIVE SearchSSTables_stops(_, _, _)
SearchSSTables_stops(files, paths, key) ==
    IF paths = <<>> THEN None
    ELSE LET file == files[Head(paths)]
         IN  IF ~SSTableReader_opens(file) THEN None
             ELSE LET result == SSTableReader_get(file, key)
                  IN  IF result # NoEntry
                      THEN IF is_tombstone(result) THEN None ELSE result.value
                      ELSE SearchSSTables_stops(files, Tail(paths), key)

\* the loop over the SSTable files in Database.get: a reader that fails to
\* open is skipped, the first file holding the key decides
RECURSIVE SearchSSTables(_, _, _)
SearchSSTables(files, paths, key) ==
    IF paths = <<>> THEN None
    ELSE LET file == files[Head(paths)]
             result == IF SSTableReader_opens(file) THEN SSTableReader_get(file, key) ELSE NoEntry
         IN  IF result # NoEntry
             THEN IF is_tombstone(result) THEN None ELSE result.value
             ELSE SearchSSTables(files, Tail(paths), key)

\* Database.get
Database_get(mem, files, key) ==
    LET memtable_result == SkipList_search(mem, key)
    IN  IF memtable_result # NoEntry
        THEN IF is_tombstone(memtable_result) THEN None ELSE memtable_result.value
        ELSE SearchSSTables(files, SortNewestFirst(IterDir(files, sstables_dir)), key)

\* variant: flush only above the threshold
should_flush_strict(mem) == SkipList_size(mem) > memtable_flush_threshold

\* Database._should_flush
should_flush(mem) == SkipList_size(mem) >= memtable_flush_threshold

\* Database._flush_memtable_to_sstable
flush_memtable_to_sstable(d, fault, now) ==
    LET i == SSTableWriter_init(d.sst_files, sstables_dir, DEFAULT_INDEX_INTERVAL, now)
        a == SSTableWriter_add_all(i.writer, i.files, SkipList_iter(d.memtable))
        fin == SSTableWriter_finalize(a.writer, a.files, fault)
        r == WAL_rotate(d.wal, d.wal_files, SSTableWriter_sstable_id(a.writer), d.seq_no + 1, now)
    IN  IF a.result # "ok" THEN [result |-> a.result, db |-> [d EXCEPT !.sst_files = a.files]]
        ELSE IF fin.result # "ok" THEN [result |-> fin.result, db |-> [d EXCEPT !.sst_files = fin.files]]
        ELSE IF r.result # "ok"
        THEN [result |-> r.result,
              db |-> [d EXCEPT !.sst_files = fin.files, !.seq_no = @ + 1,
                               !.wal = r.wal, !.wal_files = r.files]]
        ELSE [result |-> "ok",
              db |-> [d EXCEPT !.sst_files = fin.files, !.seq_no = @ + 1,
                               !.wal = r.wal, !.wal_files = r.files,
                               !.memtable = SkipList_new]]

\* the tail of put: insert, then flush when the memtable is full
InsertAndFlush(d, key, entry, fault, now) ==
    LET d1 == [d EXCEPT !.memtable = SkipList_insert(@, key, entry)]
    IN  IF should_flush(d1.memtable)
        THEN LET f == flush_memtable_to_sstable(d1, fault, now)
             IN  [result |-> f.result, inserted |-> TRUE,
                  flush |-> IF f.result = "ok" THEN "done" ELSE "failed", db |-> f.db]
        ELSE [result |-> "ok", inserted |-> TRUE, flush |-> "none", db |-> d1]

\* variant: the memtable insert comes before the WAL write
Database_put_memtable_first(d, key, value, fault, now) ==
    LET seq_num == d.seq_no + 1
        entry == DatabaseEntry_put(key, seq_num, value)
        d0 == [d EXCEPT !.seq_no = seq_num, !.memtable = SkipList_insert(@, key, entry)]
        w == WAL_write_to_log(d0.wal, d0.wal_files, entry, fault)
    IN  IF ~EntryValid(key, seq_num, "PUT", value)
        THEN [result |-> "ValueError", inserted |-> FALSE, flush |-> "none",
              db |-> [d EXCEPT !.seq_no = seq_num]]
        ELSE IF w.result # "ok"
        THEN [result |-> w.result, inserted |-> FALSE, flush |-> "none",
              db |-> [d0 EXCEPT !.wal = w.wal, !.wal_files = w.files]]
        ELSE InsertAndFlush([d EXCEPT !.seq_no = seq_num, !.wal = w.wal, !.wal_files = w.files],
                            key, entry, fault, now)

\* Database.put
Database_put(d, key, value, fault, now) ==
    LET seq_num == d.seq_no + 1
        d0 == [d EXCEPT !.seq_no = seq_num]
        entry == DatabaseEntry_put(key, seq_num, value)
        w == WAL_write_to_log(d0.wal, d0.wal_files, entry, fault)
    IN  IF ~EntryValid(key, seq_num, "PUT", value)
        THEN [result |-> "ValueError", inserted |-> FALSE, flush |-> "none", db |-> d0]
        ELSE IF w.result # "ok"
        THEN [result |-> w.result, inserted |-> FALSE, flush |-> "none",
              db |-> [d0 EXCEPT !.wal = w.wal, !.wal_files = w.files]]
        ELSE InsertAndFlush([d0 EXCEPT !.wal = w.wal, !.wal_files = w.files], key, entry, fault, now)

\* Database.delete: no flush check after the insert
Database_delete(d, key, fault) ==
    LET seq_num == d.seq_no + 1
        d0 == [d EXCEPT !.seq_no = seq_num]
        entry == DatabaseEntry_delete(key, seq_num)
        w == WAL_write_to_log(d0.wal, d0.wal_files, entry, fault)
    IN  IF ~EntryValid(key, seq_num, "DELETE", None)
        THEN [result |-> "ValueError", inserted |-> FALSE, flush |-> "none", db |-> d0]
        ELSE IF w.result # "ok"
        THEN [result |-> w.result, inserted |-> FALSE, flush |-> "none",
              db |-> [d0 EXCEPT !.wal = w.wal, !.wal_files = w.files]]
        ELSE [result |-> "ok", inserted |-> TRUE, flush |-> "none",
              db |-> [d0 EXCEPT !.wal = w.wal, !.wal_files = w.files,
                                !.memtable = SkipList_insert(@, key, entry)]]

\* Database._discover_wal_files: the files sorted by the timestamp of their
\* name; files of one timestamp come in the order iterdir() lists them,
\* which is any order.  The set of the orders the sort can give.
RECURSIVE discover_wal_files(_)
discover_wal_files(names) ==
    IF names = {} THEN {<<>>}
    ELSE LET oldest == {n \in names : \A m \in names : n[1] <= m[1]}
         IN  UNION {{<<n>> \o rest : rest \in discover_wal_files(names \ {n})} : n \in oldest}

\* variant: FLUSH markers are not counted
RECURSIVE HighestSequence_no_markers(_, _)
HighestSequence_no_markers(entries, highest) ==
    IF entries = <<>> THEN highest
    ELSE IF is_flush_marker(Head(entries))
    THEN HighestSequence_no_markers(Tail(entries), highest)
    ELSE HighestSequence_no_markers(Tail(entries), Max(highest, Head(entries).sequence))

\* the highest sequence among entries
RECURSIVE HighestSequence(_, _)
HighestSequence(entries, highest) ==
    IF entries = <<>> THEN highest
    ELSE HighestSequence(Tail(entries), Max(highest, Head(entries).sequence))

\* the inner loop of _replay_wal_files over a file that is replayed
RECURSIVE ReplayEntries(_, _)
ReplayEntries(entries, mem) ==
    IF entries = <<>> THEN mem
    ELSE LET e == Head(entries)
             db_entry == to_database_entry(e)
         IN  IF is_flush_marker(e) THEN ReplayEntries(Tail(entries), mem)
             ELSE IF ~EntryValid(db_entry.key, db_entry.sequence, db_entry.entry_type, db_entry.value)
             THEN ReplayEntries(Tail(entries), mem)
             ELSE ReplayEntries(Tail(entries), SkipList_insert(mem, db_entry.key, db_entry))

\* Database._should_replay_wal_file
should_replay_wal_file(content) == ~has_flush_marker_at_end(content)

\* variant: the sequences of a skipped file are not tracked
RECURSIVE replay_wal_files_replayed_only(_, _, _, _)
replay_wal_files_replayed_only(files, order, mem, highest) ==
    IF order = <<>> THEN [memtable |-> mem, highest_sequence |-> highest]
    ELSE LET entries == read_all_entries(files[Head(order)])
         IN  IF ~should_replay_wal_file(files[Head(order)])
             THEN replay_wal_files_replayed_only(files, Tail(order), mem, highest)
             ELSE replay_wal_files_replayed_only(files, Tail(order), ReplayEntries(entries, mem),
                                                 HighestSequence(entries, highest))

\* Database._replay_wal_files over the discovered files, in their order:
\* [memtable, highest_sequence]
RECURSIVE replay_wal_files(_, _, _, _)
replay_wal_files(files, order, mem, highest) ==
    IF order = <<>> THEN [memtable |-> mem, highest_sequence |-> highest]
    ELSE LET entries == read_all_entries(files[Head(order)])
             h == HighestSequence(entries, highest)
         IN  IF ~should_replay_wal_file(files[Head(order)])
             THEN replay_wal_files(files, Tail(order), mem, h)
             ELSE replay_wal_files(files, Tail(order), ReplayEntries(entries, mem), h)

\* variant: the sequence counter starts at 0 on every open
Database_init_from_zero(w_files, s_files, order, now) ==
    LET w == WAL_init(w_files, now)
        r == replay_wal_files(w.files, order, SkipList_new, 0)
    IN  [seq_no |-> 0, memtable |-> r.memtable, wal |-> w.wal,
         wal_files |-> w.files, sst_files |-> s_files]

\* Database.__init__ on a directory holding wal_files and sst_files
Database_init(w_files, s_files, order, now) ==
    LET w == WAL_init(w_files, now)
        r == replay_wal_files(w.files, order, SkipList_new, 0)
    IN  [seq_no |-> r.highest_sequence, memtable |-> r.memtable, wal |-> w.wal,
         wal_files |-> w.files, sst_files |-> s_files]

--------------------------------------------------------------------------
(* The state machine: one handle at a time on one base_path *)

DB == [seq_no |-> seq_no, memtable |-> memtable, wal |-> wal,
       wal_files |-> wal_files, sst_files |-> sst_files]

NoFiles == [p \in {} |-> <<>>]

\* no SSTableWriter object
NoWriter == [filepath |-> None]

\* what get(k) returns in the current state, for every key
Visible == [k \in Keys |-> Database_get(memtable, sst_files, k)]

SetDB(d) ==
    /\ seq_no' = d.seq_no
    /\ memtable' = d.memtable
    /\ wal' = d.wal
    /\ wal_files' = d.wal_files
    /\ sst_files' = d.sst_files

\* the arguments of a call pass every validation
ValidArgs(key, value) ==
    /\ KeyBytes(key) > 0
    /\ KeyBytes(key) <= MAX_KEY_BYTES
    /\ ValueBytes(value) <= MAX_VALUE_BYTES

\* the sequence numbers of the records in the WAL segments
WalSequences(files) ==
    UNION {{files[p][i].sequence : i \in 1..Len(files[p])} : p \in DOMAIN files}

\* the highest of them, 0 when there is no record
WalMaxSequence(files) ==
    IF WalSequences(files) = {} THEN 0
    ELSE CHOOSE m \in WalSequences(files) : \A n \in WalSequences(files) : n <= m

\* the history variables after a put/delete call that ended as r says
Record(op, key, value, r) ==
    /\ last_call' = [op |-> op, result |-> r.result, valid |-> ValidArgs(key, value),
                     inserted |-> r.inserted, flush |-> r.flush]
    /\ acked' = IF r.result = "ok" THEN [acked EXCEPT ![key] = value] ELSE acked
    /\ here' = IF r.result = "ok" THEN here \cup {key} ELSE here
    /\ dirty' = IF r.result = "ok" THEN dirty \ {key}
                ELSE IF key \in Keys /\ (r.inserted \/ r.db.wal_files # wal_files)
                THEN dirty \cup {key} ELSE dirty
    /\ fresh' = "no"
    /\ UNCHANGED at_end

\* no DatabaseEntry constructed, no call on the WAL object, no segment file yet
NoCall == [key |-> None, sequence |-> 0, entry_type |-> "none", value |-> None, result |-> "none"]
NoWalCall == [op |-> "none", entry |-> NoEntry, sequence |-> 0, closed |-> FALSE,
              result |-> "none", message |-> "", offset |-> None, path |-> None]
NoListCall == [op |-> "none", key |-> None, sequence |-> 0]
NoReader == [filepath |-> None, file |-> None, result |-> "none"]
NoSegment == [written |-> <<>>, bytes |-> <<>>, hit |-> 0, read |-> FALSE, entries |-> <<>>,
              position |-> 0, done |-> FALSE, steps |-> 0]

\* a configuration, and Database(config) on a new base_path
InitWith(threshold) ==
    LET d == Database_init(NoFiles, NoFiles, <<<<0, 0>>>>, 0)
    IN  /\ memtable_flush_threshold = threshold
        /\ clock = 0
        /\ db_state = "open"
        /\ seq_no = d.seq_no
        /\ memtable = d.memtable
        /\ wal = d.wal
        /\ wal_files = d.wal_files
        /\ sst_files = d.sst_files
        /\ last_call = [op |-> "open", result |-> "ok", valid |-> TRUE,
                     inserted |-> FALSE, flush |-> "none"]
        /\ acked = [k \in Keys |-> None]
        /\ here = {}
        /\ dirty = {}
        /\ at_end = [how |-> "none", get |-> [k \in Keys |-> None], seq_no |-> 0, logged |-> 0]
        /\ opens = 0
        /\ faults = 0
        /\ fresh = "no"
        /\ sst_writer = NoWriter
        /\ added = NoFiles
        /\ sst_result = [op |-> "none", key |-> None, result |-> "none"]
        /\ made = NoCall
        /\ wal_result = NoWalCall
        /\ written = [p \in DOMAIN d.wal_files |-> <<>>]
        /\ segment = NoSegment
        /\ opened = NoReader
        /\ list_call = NoListCall

Init == InitWith(FlushThreshold)

\* the variables the Database calls leave alone
aside == <<memtable_flush_threshold, sst_writer, added, sst_result,
           made, wal_result, written, segment, opened, list_call>>

\* db.put(key, value)
PutCall(key, value, fault) ==
    /\ UNCHANGED aside
    /\ db_state \in {"open", "closed"}
    /\ fault # "none" => faults < MaxFaults
    /\ faults' = IF fault = "none" THEN faults ELSE faults + 1
    /\ LET r == Database_put(DB, key, value, fault, clock)
       IN  SetDB(r.db) /\ Record("put", key, value, r)
    /\ UNCHANGED <<clock, db_state, opens>>

\* put within the bound: a put may take two sequence numbers
Put(key, value, fault) == seq_no + 2 <= MaxSeq /\ PutCall(key, value, fault)

\* db.delete(key)
DeleteCall(key, fault) ==
    /\ UNCHANGED aside
    /\ db_state \in {"open", "closed"}
    /\ fault # "none" => faults < MaxFaults
    /\ faults' = IF fault = "none" THEN faults ELSE faults + 1
    /\ LET r == Database_delete(DB, key, fault)
       IN  SetDB(r.db) /\ Record("delete", key, None, r)
    /\ UNCHANGED <<clock, db_state, opens>>

Delete(key, fault) == seq_no + 1 <= MaxSeq /\ DeleteCall(key, fault)

\* db.close()
Close ==
    /\ UNCHANGED aside
    /\ db_state = "open"
    /\ db_state' = "closed"
    /\ wal' = WAL_close(wal)
    /\ at_end' = [how |-> "close", get |-> Visible, seq_no |-> seq_no,
                  logged |-> WalMaxSequence(wal_files)]
    /\ last_call' = [op |-> "close", result |-> "ok", valid |-> TRUE,
                     inserted |-> FALSE, flush |-> "none"]
    /\ fresh' = "no"
    /\ UNCHANGED <<clock, seq_no, memtable, wal_files, sst_files, acked, here, dirty, opens, faults>>

\* the process stops between two calls, without close()
Stop ==
    /\ UNCHANGED aside
    /\ db_state = "open"
    /\ db_state' = "down"
    /\ wal' = WAL_close(wal)
    /\ memtable' = SkipList_new
    /\ at_end' = [how |-> "stop", get |-> Visible, seq_no |-> seq_no,
                  logged |-> WalMaxSequence(wal_files)]
    /\ last_call' = [op |-> "stop", result |-> "ok", valid |-> TRUE,
                     inserted |-> FALSE, flush |-> "none"]
    /\ fresh' = "no"
    /\ UNCHANGED <<clock, seq_no, wal_files, sst_files, acked, here, dirty, opens, faults>>

\* the process stops inside put(key, value) or delete(key), after the
\* fsync of write_to_log and before the call returns
StopInCall(op, key, value) ==
    /\ UNCHANGED aside
    /\ db_state = "open"
    /\ seq_no + 1 <= MaxSeq
    /\ LET entry == IF op = "put" THEN DatabaseEntry_put(key, seq_no + 1, value)
                    ELSE DatabaseEntry_delete(key, seq_no + 1)
           w == WAL_write_to_log(wal, wal_files, entry, "none")
       IN  /\ w.result = "ok"
           /\ wal_files' = w.files
           /\ wal' = WAL_close(w.wal)
    /\ db_state' = "down"
    /\ seq_no' = seq_no + 1
    /\ memtable' = SkipList_new
    /\ at_end' = [how |-> "stop", get |-> Visible, seq_no |-> seq_no + 1,
                  logged |-> seq_no + 1]
    /\ last_call' = [op |-> "stopped", result |-> "ok", valid |-> TRUE,
                     inserted |-> FALSE, flush |-> "none"]
    /\ dirty' = dirty \cup {key}
    /\ fresh' = "no"
    /\ UNCHANGED <<clock, sst_files, acked, here, opens, faults>>

\* Database(config) on the same base_path, after close() or after a stop
Open(order) ==
    /\ UNCHANGED aside
    /\ db_state \in {"closed", "down"}
    /\ opens < MaxOpens
    /\ opens' = opens + 1
    /\ LET d == Database_init(wal_files, sst_files, order, clock)
       IN  SetDB(d)
    /\ db_state' = "open"
    /\ last_call' = [op |-> "open", result |-> "ok", valid |-> TRUE,
                     inserted |-> FALSE, flush |-> "none"]
    /\ here' = {}
    /\ fresh' = at_end.how
    /\ UNCHANGED <<clock, acked, dirty, at_end, faults>>

\* a second passes
Tick ==
    /\ UNCHANGED aside
    /\ clock < MaxClock
    /\ clock' = clock + 1
    /\ UNCHANGED <<db_state, seq_no, memtable, wal, wal_files, sst_files,
                   last_call, acked, here, dirty, at_end, opens, faults, fresh>>

Next ==
    \/ \E key \in KeyInputs, value \in ValueInputs, fault \in Faults : Put(key, value, fault)
    \/ \E key \in KeyInputs, fault \in Faults \ {"sst_finalize"} : Delete(key, fault)
    \/ Close
    \/ Stop
    \/ \E key \in Keys, value \in Values : StopInCall("put", key, value)
    \/ \E key \in Keys : StopInCall("delete", key, None)
    \/ \E order \in discover_wal_files(DOMAIN OpenAppend(wal_files, <<clock, 0>>)) : Open(order)
    \/ Tick

Spec == Init /\ [][Next]_vars

--------------------------------------------------------------------------
(* Longer runs of valid calls without I/O errors, under each configuration *)

MaxSeqLong == 4

\* the values of memtable_flush_threshold explored
Thresholds == 1..FlushThreshold

InitLong == \E threshold \in Thresholds : InitWith(threshold)

LongPut(key, value) ==
    /\ db_state = "open"
    /\ seq_no + 2 <= MaxSeqLong
    /\ PutCall(key, value, "none")

LongDelete(key) ==
    /\ db_state = "open"
    /\ seq_no + 1 <= MaxSeqLong
    /\ DeleteCall(key, "none")

NextLong ==
    \/ \E key \in Keys, value \in Values : LongPut(key, value)
    \/ \E key \in Keys : LongDelete(key)
    \/ Close
    \/ Stop
    \/ \E order \in discover_wal_files(DOMAIN OpenAppend(wal_files, <<clock, 0>>)) : Open(order)
    \/ Tick

SpecLong == InitLong /\ [][NextLong]_vars

--------------------------------------------------------------------------
(* Runs with a flush on every put (memtable_flush_threshold = 1), long     *)
(* enough for two flushes and a call after them, with close() and reopen   *)

MaxSeqOrder == 5

InitOrder == InitWith(1)

OrderPut(key, value) ==
    /\ db_state = "open"
    /\ seq_no + 2 <= MaxSeqOrder
    /\ PutCall(key, value, "none")

OrderDelete(key) ==
    /\ db_state = "open"
    /\ seq_no + 1 <= MaxSeqOrder
    /\ DeleteCall(key, "none")

NextOrder ==
    \/ \E key \in Keys, value \in Values : OrderPut(key, value)
    \/ \E key \in Keys : OrderDelete(key)
    \/ Close
    \/ \E order \in discover_wal_files(DOMAIN OpenAppend(wal_files, <<clock, 0>>)) : Open(order)
    \/ Tick

SpecOrder == InitOrder /\ [][NextOrder]_vars

--------------------------------------------------------------------------
(* SSTableWriter and SSTableReader used directly, on files inside the      *)
(* sstables directory of a database whose memtable stays below its flush   *)
(* threshold.  Each call takes the next sequence number.                   *)

MaxSstOps == 3
MaxFiles == 2

\* index_interval values a writer is made with
Intervals == {1, 2}

\* a flush threshold the memtable does not reach within MaxSstOps calls
NoFlushThreshold == MaxSstOps + 1

\* the keys of the entries handed to add_entry: DatabaseEntry refuses ""
SstKeys == (KeyInputs \ {0}) \cup {BigKey}

\* the entries handed to add_entry
SstEntries(sequence) ==
    {DatabaseEntry_put(k, sequence, v) : k \in SstKeys, v \in Values}
        \cup {DatabaseEntry_delete(k, sequence) : k \in SstKeys}

\* base_path = sstables_dir / "sstable"
sstable_base_path == [dir |-> Append(sstables_dir.dir, sstables_dir.name), name |-> "sstable"]

InitSST == InitWith(NoFlushThreshold)

\* the variables the SSTableWriter calls leave alone
db_vars == <<clock, db_state, memtable, wal, wal_files, last_call, acked, here, dirty,
             at_end, opens, faults, memtable_flush_threshold, fresh,
             made, wal_result, written, segment, opened, list_call>>

\* writer = SSTableWriter(base_path, index_interval = interval)
SstNewWriter(interval) ==
    /\ sst_writer = NoWriter
    /\ Cardinality(DOMAIN sst_files) < MaxFiles
    /\ SSTable_timestamped_path(sstable_base_path, clock) \notin DOMAIN sst_files
    /\ LET r == SSTableWriter_init(sst_files, sstable_base_path, interval, clock)
       IN  /\ sst_writer' = r.writer
           /\ sst_files' = r.files
           /\ added' = [p \in DOMAIN r.files |->
                           IF p = r.writer.filepath THEN <<>> ELSE added[p]]
    /\ sst_result' = [op |-> "init", key |-> None, result |-> "ok"]
    /\ UNCHANGED <<seq_no, db_vars>>

\* writer.add_entry(entry)
SstAddEntry(entry) ==
    /\ sst_writer # NoWriter
    /\ seq_no + 1 <= MaxSstOps
    /\ seq_no' = seq_no + 1
    /\ LET r == SSTableWriter_add_entry(sst_writer, sst_files, entry)
       IN  /\ sst_writer' = r.writer
           /\ sst_files' = r.files
           /\ added' = IF r.result = "ok"
                       THEN [added EXCEPT ![sst_writer.filepath] = Append(@, entry)]
                       ELSE added
           /\ sst_result' = [op |-> "add", key |-> entry.key, result |-> r.result]
    /\ UNCHANGED db_vars

\* writer.finalize()
SstFinalize ==
    /\ sst_writer # NoWriter
    /\ LET r == SSTableWriter_finalize(sst_writer, sst_files, "none")
       IN  sst_files' = r.files
    /\ sst_writer' = NoWriter
    /\ sst_result' = [op |-> "finalize", key |-> None, result |-> "ok"]
    /\ UNCHANGED <<seq_no, added, db_vars>>

\* db.put(key, value) on the database
SstPut(key, value) ==
    /\ db_state = "open"
    /\ seq_no + 1 <= MaxSstOps
    /\ PutCall(key, value, "none")

\* db.delete(key) on the database
SstDelete(key) ==
    /\ db_state = "open"
    /\ seq_no + 1 <= MaxSstOps
    /\ DeleteCall(key, "none")

\* the clock reaches the next second between two writers
SstTick ==
    /\ sst_writer = NoWriter
    /\ clock + 1 < MaxFiles
    /\ clock' = clock + 1
    /\ UNCHANGED <<db_state, seq_no, memtable, wal, wal_files, sst_files, last_call, acked,
                   here, dirty, at_end, opens, faults, fresh, aside>>

NextSST ==
    \/ \E interval \in Intervals : SstNewWriter(interval)
    \/ \E entry \in SstEntries(seq_no + 1) : SstAddEntry(entry)
    \/ SstFinalize
    \/ \E key \in Keys, value \in Values : SstPut(key, value)
    \/ \E key \in Keys : SstDelete(key)
    \/ SstTick

SpecSST == InitSST /\ [][NextSST]_vars

--------------------------------------------------------------------------
(* DatabaseEntry(key, sequence, entry_type, value) called with arguments   *)
(* of every kind                                                           *)

MaxEntrySeq == 2

\* the arguments of the constructor calls
EntryKeys == KeyInputs \cup {BigKey}
EntrySequences == (0 - 1)..MaxEntrySeq
EntryTypes == {"PUT", "DELETE"}
EntryValues == {None} \cup ValueInputs

\* DatabaseEntry(key=key, sequence=sequence, entry_type=entry_type, value=value):
\* the frozen dataclass keeps its arguments when __post_init__ does not raise
Construct(key, sequence, entry_type, value) ==
    /\ made' = [key |-> key, sequence |-> sequence, entry_type |-> entry_type, value |-> value,
                result |-> IF EntryValid(key, sequence, entry_type, value)
                           THEN "ok" ELSE "ValueError"]
    /\ UNCHANGED <<clock, db_state, seq_no, memtable, wal, wal_files, sst_files, last_call,
                   acked, here, dirty, at_end, opens, faults, fresh, memtable_flush_threshold,
                   sst_writer, added, sst_result, wal_result, written, segment, opened, list_call>>

NextEntry ==
    \E key \in EntryKeys, sequence \in EntrySequences, entry_type \in EntryTypes,
       value \in EntryValues : Construct(key, sequence, entry_type, value)

SpecEntry == Init /\ [][NextEntry]_vars

--------------------------------------------------------------------------
(* Calls on the WriteAheadLog object of a database, db.wal, whose memtable *)
(* stays below its flush threshold: write_to_log and rotate before and     *)
(* after db.close(), put and delete after db.close(), and new handles on   *)
(* the same base_path.  Each call takes the next sequence number.          *)

MaxWalOps == 3

\* the entries handed to write_to_log
WalKeys == {LongKey, BigKey, WideKey}
WalValues == {LongValue, BigValue}
WalEntries(sequence) ==
    {DatabaseEntry_put(k, sequence, v) : k \in Keys, v \in Values \cup WalValues}
        \cup {DatabaseEntry_put(k, sequence, v) : k \in WalKeys, v \in WalValues}
        \cup {DatabaseEntry_delete(k, sequence) : k \in {1, LongKey}}

InitWAL == InitWith(MaxWalOps + 1)

\* the entries written so far to the segment
WalWritten(path) == IF path \in DOMAIN written THEN written[path] ELSE <<>>

\* the history after the entry went into the segment
WrittenTo(path, wal_entry) ==
    [p \in DOMAIN written \cup {path} |->
        IF p = path THEN Append(WalWritten(p), wal_entry) ELSE written[p]]

\* the variables a call on the WAL object leaves alone
wal_aside == <<clock, db_state, memtable, sst_files, last_call, acked, here, dirty, at_end,
               opens, faults, fresh, memtable_flush_threshold, sst_writer, added, sst_result,
               made, segment, opened, list_call>>

\* db.wal.write_to_log(entry)
WalWrite(entry) ==
    /\ db_state \in {"open", "closed"}
    /\ seq_no + 1 <= MaxWalOps
    /\ seq_no' = seq_no + 1
    /\ LET r == WAL_write_to_log(wal, wal_files, entry, "none")
       IN  /\ wal' = r.wal
           /\ wal_files' = r.files
           /\ wal_result' = [op |-> "write", entry |-> entry, sequence |-> entry.sequence,
                             closed |-> db_state = "closed", result |-> r.result,
                             message |-> r.message, offset |-> r.offset,
                             path |-> wal.current_path]
           /\ written' = IF r.result = "ok"
                         THEN WrittenTo(wal.current_path, WALEntry_from_database_entry(entry))
                         ELSE written
    /\ UNCHANGED wal_aside

\* db.wal.rotate(sstable_id, sequence)
WalRotate(sstable_id) ==
    /\ db_state \in {"open", "closed"}
    /\ seq_no + 1 <= MaxWalOps
    /\ seq_no' = seq_no + 1
    /\ LET r == WAL_rotate(wal, wal_files, sstable_id, seq_no + 1, clock)
       IN  /\ wal' = r.wal
           /\ wal_files' = r.files
           /\ wal_result' = [op |-> "rotate", entry |-> NoEntry, sequence |-> seq_no + 1,
                             closed |-> db_state = "closed", result |-> r.result,
                             message |-> "", offset |-> None, path |-> wal.current_path]
           /\ written' = IF r.result = "ok"
                         THEN WrittenTo(wal.current_path, WALEntry_flush(sstable_id, seq_no + 1))
                         ELSE written
    /\ UNCHANGED wal_aside

\* db.put(key, value) after db.close()
WalPut(key, value) ==
    /\ db_state = "closed"
    /\ seq_no + 1 <= MaxWalOps
    /\ PutCall(key, value, "none")

\* db.delete(key) after db.close()
WalDelete(key) ==
    /\ db_state = "closed"
    /\ seq_no + 1 <= MaxWalOps
    /\ DeleteCall(key, "none")

NextWAL ==
    \/ \E entry \in WalEntries(seq_no + 1) : WalWrite(entry)
    \/ WalRotate(<<"sstables", clock>>)
    \/ \E key \in Keys, value \in Values : WalPut(key, value)
    \/ \E key \in Keys : WalDelete(key)
    \/ Close
    \/ \E order \in discover_wal_files(DOMAIN OpenAppend(wal_files, <<clock, 0>>)) : Open(order)
    \/ Tick

SpecWAL == InitWAL /\ [][NextWAL]_vars

--------------------------------------------------------------------------
(* SSTableReader(filepath) on the files of SSTableWriter, among them files *)
(* of which one field of the header changed on disk after finalize().      *)

\* the variables an SSTableReader leaves alone beside those of the writer
db_vars_of_reader == <<clock, db_state, memtable, wal, wal_files, last_call, acked, here, dirty,
                       at_end, opens, faults, memtable_flush_threshold, fresh,
                       made, wal_result, written, segment, list_call>>

\* the stored header CRC is the checksum of the header before it
HeaderCrcMatches(file) == file.header_crc = crc32(HeaderFields(file))

\* the fields of the header that change on disk
HeaderDamage == {"magic", "timestamp", "header_crc"}

\* the file with the first byte of the magic zeroed, or the timestamp or
\* the stored CRC off by one
Damaged(file, field) ==
    CASE field = "magic" -> [file EXCEPT !.magic = <<0>> \o Tail(@)]
      [] field = "timestamp" -> [file EXCEPT !.timestamp = @ + 1]
      [] field = "header_crc" -> [file EXCEPT !.header_crc = @ + 1]

\* a field of the header of a finalized, intact file changes on disk
SstDamage(path, field) ==
    /\ path \in DOMAIN sst_files
    /\ sst_files[path].finalized
    /\ sst_files[path].magic = SSTABLE_MAGIC
    /\ HeaderCrcMatches(sst_files[path])
    /\ sst_files' = [sst_files EXCEPT ![path] = Damaged(@, field)]
    /\ UNCHANGED <<seq_no, sst_writer, added, sst_result, opened, db_vars_of_reader>>

\* reader = SSTableReader(filepath)
SstOpenReader(path) ==
    /\ path \in DOMAIN sst_files
    /\ opened' = [filepath |-> path, file |-> sst_files[path],
                  result |-> IF SSTableReader_opens(sst_files[path]) THEN "ok" ELSE "raises"]
    /\ UNCHANGED <<seq_no, sst_files, sst_writer, added, sst_result, db_vars_of_reader>>

NextHeader ==
    \/ \E interval \in Intervals : SstNewWriter(interval)
    \/ \E entry \in SstEntries(seq_no + 1) : SstAddEntry(entry)
    \/ SstFinalize
    \/ SstTick
    \/ \E path \in DOMAIN sst_files, field \in HeaderDamage : SstDamage(path, field)
    \/ \E path \in DOMAIN sst_files : SstOpenReader(path)

SpecHeader == InitSST /\ [][NextHeader]_vars

--------------------------------------------------------------------------
(* A SkipList of its own: insert and delete calls in any order, each       *)
(* numbered; the list is kept in memtable.                                 *)

MaxListOps == 4

\* the variables a SkipList method leaves alone
list_aside == <<clock, db_state, wal, wal_files, sst_files, last_call, acked, here, dirty,
                at_end, opens, faults, fresh, memtable_flush_threshold, sst_writer, added,
                sst_result, made, wal_result, written, segment, opened>>

\* list.insert(key, entry)
ListInsert(key, value) ==
    /\ seq_no + 1 <= MaxListOps
    /\ seq_no' = seq_no + 1
    /\ memtable' = SkipList_insert(memtable, key, DatabaseEntry_put(key, seq_no + 1, value))
    /\ list_call' = [op |-> "insert", key |-> key, sequence |-> seq_no + 1]
    /\ UNCHANGED list_aside

\* list.delete(key)
ListDelete(key) ==
    /\ seq_no + 1 <= MaxListOps
    /\ seq_no' = seq_no + 1
    /\ memtable' = SkipList_delete(memtable, key)
    /\ list_call' = [op |-> "delete", key |-> key, sequence |-> seq_no + 1]
    /\ UNCHANGED list_aside

NextList ==
    \/ \E key \in Keys, value \in Values : ListInsert(key, value)
    \/ \E key \in Keys : ListDelete(key)

SpecList == Init /\ [][NextList]_vars

--------------------------------------------------------------------------
(* "with SSTableWriter(base_path) as writer:": the writer is made on       *)
(* entry, the body adds entries, and the block is left with or without an  *)
(* exception.                                                              *)

\* the with block is left; exc: an exception leaves it
SstExit(exc) ==
    /\ sst_writer # NoWriter
    /\ LET r == SSTableWriter_exit(sst_writer, sst_files, exc)
       IN  /\ sst_files' = r.files
           /\ added' = [p \in DOMAIN r.files |-> added[p]]
           /\ sst_result' = [op |-> IF exc THEN "exit on error" ELSE "exit", key |-> None,
                             result |-> r.called]
    /\ sst_writer' = NoWriter
    /\ UNCHANGED <<seq_no, db_vars>>

NextScope ==
    \/ \E interval \in Intervals : SstNewWriter(interval)
    \/ \E entry \in SstEntries(seq_no + 1) : SstAddEntry(entry)
    \/ \E exc \in BOOLEAN : SstExit(exc)
    \/ SstTick

SpecScope == InitSST /\ [][NextScope]_vars

--------------------------------------------------------------------------
(* wal.py at the level of bytes: one segment file as the sequence of its   *)
(* bytes.  A key is the sequence of the bytes of its UTF-8 encoding, a     *)
(* value the sequence of its bytes.  Records are written to the file, one  *)
(* byte of the file is then overwritten, and read_all_entries reads it.    *)

MaxSegRecords == 3

Min(a, b) == IF a <= b THEN a ELSE b

\* struct.pack("!I", n) and struct.pack("!Q", n) of a number below 2^31
U32(n) == <<(n \div (256 * 256 * 256)) % 256, (n \div (256 * 256)) % 256, (n \div 256) % 256, n % 256>>
U64(n) == <<0, 0, 0, 0>> \o U32(n)

\* struct.unpack of a "!I" and of a "!Q" field; a number of 2^24 or more is
\* given as 2^24, which exceeds every file size here
FieldCap == 256 * 256 * 256
U32Value(b) == IF b[1] # 0 THEN FieldCap ELSE (b[2] * 256 + b[3]) * 256 + b[4]
U64Value(b) == IF \E i \in 1..5 : b[i] # 0 THEN FieldCap ELSE (b[6] * 256 + b[7]) * 256 + b[8]

\* bytes.decode("utf-8") succeeds: one to four byte forms of the encoding
IsContinuation(b) == b \in 128..191

RECURSIVE Utf8Valid(_)
Utf8Valid(b) ==
    IF Len(b) = 0 THEN TRUE
    ELSE IF b[1] < 128 THEN Utf8Valid(Tail(b))
    ELSE IF b[1] \in 194..223
    THEN Len(b) >= 2 /\ IsContinuation(b[2]) /\ Utf8Valid(SubSeq(b, 3, Len(b)))
    ELSE IF b[1] \in 224..239
    THEN /\ Len(b) >= 3
         /\ IsContinuation(b[2]) /\ IsContinuation(b[3])
         /\ b[1] = 224 => b[2] >= 160
         /\ b[1] = 237 => b[2] <= 159
         /\ Utf8Valid(SubSeq(b, 4, Len(b)))
    ELSE IF b[1] \in 240..244
    THEN /\ Len(b) >= 4
         /\ IsContinuation(b[2]) /\ IsContinuation(b[3]) /\ IsContinuation(b[4])
         /\ b[1] = 240 => b[2] >= 144
         /\ b[1] = 244 => b[2] <= 143
         /\ Utf8Valid(SubSeq(b, 5, Len(b)))
    ELSE FALSE

\* WALEntry.serialize: crc, sequence, timestamp, op_type, key_len, value_len, key, value
WALEntry_bytes(e, timestamp) ==
    LET raw_header == U64(e.sequence) \o U64(timestamp) \o <<OpTypeValue(e.op_type)>>
                          \o U32(Len(e.key)) \o U32(Len(e.value))
    IN  U32(crc32(raw_header \o e.key \o e.value)) \o raw_header \o e.key \o e.value

\* WALEntry.deserialize
WALEntry_from_bytes(data) ==
    IF Len(data) < WAL_HEADER_SIZE
    THEN [result |-> "ValueError", entry |-> NoEntry]
    ELSE LET key_len == U32Value(SubSeq(data, 22, 25))
             value_len == U32Value(SubSeq(data, 26, 29))
             key_bytes == SubSeq(data, WAL_HEADER_SIZE + 1, WAL_HEADER_SIZE + key_len)
             value_bytes == SubSeq(data, WAL_HEADER_SIZE + key_len + 1,
                                   WAL_HEADER_SIZE + key_len + value_len)
         IN  IF \/ Len(data) < WAL_HEADER_SIZE + key_len + value_len
                \/ SubSeq(data, 1, 4) # U32(crc32(SubSeq(data, 5, 29) \o key_bytes \o value_bytes))
                \/ data[21] \notin {1, 2, 3}
                \/ ~Utf8Valid(key_bytes)
             THEN [result |-> "ValueError", entry |-> NoEntry]
             ELSE [result |-> "ok",
                   entry |-> [op_type |-> OpTypeOf(data[21]), key |-> key_bytes,
                              value |-> IF data[21] = 1 THEN value_bytes ELSE <<>>,
                              sequence |-> U64Value(SubSeq(data, 5, 12))]]

\* variant: a corrupted entry leaves the position where it is
read_step_stays(bytes, position) ==
    LET size == Len(bytes)
        header_bytes == SubSeq(bytes, position + 1, Min(position + WAL_HEADER_SIZE, size))
        payload_size == U32Value(SubSeq(header_bytes, 22, 25)) + U32Value(SubSeq(header_bytes, 26, 29))
        payload_bytes == SubSeq(bytes, position + WAL_HEADER_SIZE + 1,
                                Min(position + WAL_HEADER_SIZE + payload_size, size))
    IN  IF Len(header_bytes) < WAL_HEADER_SIZE \/ Len(payload_bytes) < payload_size
        THEN [yield |-> <<>>, position |-> position, done |-> TRUE]
        ELSE LET d == WALEntry_from_bytes(header_bytes \o payload_bytes)
             IN  IF d.result = "ok"
                 THEN [yield |-> <<d.entry>>,
                       position |-> position + WAL_HEADER_SIZE + payload_size, done |-> FALSE]
                 ELSE [yield |-> <<>>, position |-> position, done |-> FALSE]

\* one pass through the body of "while True" in read_all_entries, at a
\* position of the file: what it yields, the position after it, and whether
\* it leaves the loop
read_step(bytes, position) ==
    LET size == Len(bytes)
        header_bytes == SubSeq(bytes, position + 1, Min(position + WAL_HEADER_SIZE, size))
        payload_size == U32Value(SubSeq(header_bytes, 22, 25)) + U32Value(SubSeq(header_bytes, 26, 29))
        payload_bytes == SubSeq(bytes, position + WAL_HEADER_SIZE + 1,
                                Min(position + WAL_HEADER_SIZE + payload_size, size))
    IN  IF Len(header_bytes) = 0
        THEN [yield |-> <<>>, position |-> position, done |-> TRUE]
        ELSE IF Len(header_bytes) < WAL_HEADER_SIZE
        THEN [yield |-> <<>>, position |-> position, done |-> TRUE]
        ELSE IF Len(payload_bytes) < payload_size
        THEN [yield |-> <<>>, position |-> position, done |-> TRUE]
        ELSE LET d == WALEntry_from_bytes(header_bytes \o payload_bytes)
             IN  IF d.result = "ok"
                 THEN [yield |-> <<d.entry>>,
                       position |-> position + WAL_HEADER_SIZE + payload_size, done |-> FALSE]
                 ELSE [yield |-> <<>>, position |-> position + 1, done |-> position + 1 >= size]

\* the loop of WriteAheadLog.read_all_entries from a position of the file:
\* the entries it yields from there on
RECURSIVE read_all_entries_from(_, _)
read_all_entries_from(bytes, position) ==
    LET step == read_step(bytes, position)
    IN  IF step.done THEN step.yield
        ELSE step.yield \o read_all_entries_from(bytes, step.position)

\* the keys "a" and "e-acute", the values b"" and b"x"
SegKeys == {<<97>>, <<195, 169>>}
SegValues == {<<>>, <<120>>}
SegEntries(sequence) ==
    {[op_type |-> "PUT", key |-> k, value |-> v, sequence |-> sequence] : k \in SegKeys, v \in SegValues}
        \cup {[op_type |-> "DELETE", key |-> k, value |-> <<>>, sequence |-> sequence] : k \in SegKeys}

\* the bytes that overwrite a byte of the file
CorruptBytes == {0, 1, 255}

\* the record of the file that holds the byte at pos, counted from 1
RECURSIVE RecordAt(_, _, _)
RecordAt(entries, timestamp, pos) ==
    IF pos <= Len(WALEntry_bytes(Head(entries), timestamp)) THEN 1
    ELSE 1 + RecordAt(Tail(entries), timestamp, pos - Len(WALEntry_bytes(Head(entries), timestamp)))

seg_aside == <<clock, db_state, seq_no, memtable, wal, wal_files, sst_files, last_call,
               acked, here, dirty, at_end, opens, faults, fresh, memtable_flush_threshold,
               sst_writer, added, sst_result, made, wal_result, written, opened, list_call>>

\* file.write(entry.serialize()) on an intact file
SegWrite(entry) ==
    /\ ~segment.read
    /\ segment.hit = 0
    /\ Len(segment.written) < MaxSegRecords
    /\ segment' = [segment EXCEPT !.written = Append(@, entry),
                                  !.bytes = @ \o WALEntry_bytes(entry, clock)]
    /\ UNCHANGED seg_aside

\* one byte of the file changes on disk
SegCorrupt(pos, byte) ==
    /\ ~segment.read
    /\ segment.hit = 0
    /\ byte # segment.bytes[pos]
    /\ segment' = [segment EXCEPT !.bytes[pos] = byte,
                                  !.hit = RecordAt(segment.written, clock, pos)]
    /\ UNCHANGED seg_aside

\* list(WriteAheadLog.read_all_entries(path))
SegReadAll ==
    /\ ~segment.read
    /\ segment' = [segment EXCEPT !.read = TRUE,
                                  !.entries = read_all_entries_from(segment.bytes, 0)]
    /\ UNCHANGED seg_aside

NextBytes ==
    \/ \E entry \in SegEntries(Len(segment.written) + 1) : SegWrite(entry)
    \/ \E pos \in 1..Len(segment.bytes), byte \in CorruptBytes : SegCorrupt(pos, byte)
    \/ SegReadAll

SpecBytes == Init /\ [][NextBytes]_vars

--------------------------------------------------------------------------
(* read_all_entries one pass of its loop at a time, over a file of whole   *)
(* records, a file with one byte overwritten and a file cut short          *)

\* the file loses its end: size bytes are left
SegTruncate(size) ==
    /\ ~segment.read
    /\ segment.hit = 0
    /\ size < Len(segment.bytes)
    /\ segment' = [segment EXCEPT !.bytes = SubSeq(@, 1, size),
                                  !.hit = RecordAt(segment.written, clock, size + 1)]
    /\ UNCHANGED seg_aside

\* the next pass through the loop of read_all_entries
SegReadStep ==
    /\ ~segment.done
    /\ segment.steps <= Len(segment.bytes) + 1
    /\ LET step == read_step(segment.bytes, segment.position)
       IN  segment' = [segment EXCEPT !.read = TRUE,
                                      !.entries = @ \o step.yield,
                                      !.position = step.position,
                                      !.done = step.done,
                                      !.steps = @ + 1]
    /\ UNCHANGED seg_aside

NextRead ==
    \/ \E entry \in SegEntries(Len(segment.written) + 1) : SegWrite(entry)
    \/ \E pos \in 1..Len(segment.bytes), byte \in CorruptBytes : SegCorrupt(pos, byte)
    \/ \E size \in 0..Len(segment.bytes) : SegTruncate(size)
    \/ SegReadStep

SpecRead == Init /\ [][NextRead]_vars

--------------------------------------------------------------------------
(* Properties *)

\* the step is a call of op: every call records itself in last_call, and
\* only Tick moves the clock
Called(op) == clock' = clock /\ last_call'.op = op

\* a WAL segment holds a PUT/DELETE record of this key and sequence
Logged(files, key, sequence) ==
    \E p \in DOMAIN files : \E i \in 1..Len(files[p]) :
        /\ files[p][i].op # OpTypeValue("FLUSH")
        /\ files[p][i].key = key
        /\ files[p][i].sequence = sequence

\* C1: once put(K,V) has returned successfully, get(K) returns V until a
\* later put(K,.) or delete(K) succeeds, whatever puts on other keys and
\* whatever flushes happen in between.  Stated for the keys written through
\* the current handle and not touched by a later failed call.
C1_PutThenGet ==
    db_state # "down" =>
        \A k \in here \ dirty : acked[k] # None => Visible[k] = acked[k]

\* C2: once delete(K) has returned successfully, get(K) returns not-found
\* until a later put(K,.) succeeds.
C2_DeleteThenGet ==
    db_state # "down" =>
        \A k \in here : acked[k] = None => Visible[k] = None

\* C3: right after close() and open() on the same base_path, get(K) returns
\* for every key what it returned immediately before the close.  Stated for
\* the keys no failed or interrupted call has touched.
C3_ReopenPreservesGet ==
    fresh = "close" => \A k \in Keys \ dirty : Visible[k] = at_end.get[k]

\* C4: after the process stopped without close() and the database is opened
\* again, get(K) returns the result of the last successful put/delete on K.
\* Stated for the keys no failed or interrupted call has touched.
C4_CrashConsistent ==
    fresh = "stop" => \A k \in Keys \ dirty : Visible[k] = acked[k]

\* C5: seq_no never decreases within a process; a put adds exactly 1, and 1
\* more when its flush wrote the FLUSH marker; a delete adds exactly 1; after
\* open() seq_no is the highest sequence of any record in any WAL segment,
\* segments ending with a FLUSH marker included, and 0 when there is none.
C5_SeqStep ==
    /\ ~Called("open") => seq_no' >= seq_no
    /\ Called("put") =>
          seq_no' = seq_no + 1 + (IF last_call'.flush = "done" THEN 1 ELSE 0)
    /\ Called("delete") => seq_no' = seq_no + 1

C6_SeqNoAtClose ==
    fresh = "close" => seq_no = at_end.seq_no

\* C6 amended: the seq_no of the database re-opened after close() is the
\* highest sequence written to the WAL before the close, which is at most
\* the seq_no the previous handle had at close (a call that failed before
\* its record was written consumed a sequence that is not recovered); the
\* next put writes its record with the recovered value plus one.
C6_NextPut ==
    (fresh = "close" /\ Called("put") /\ last_call'.inserted) =>
        \E k \in Keys : Logged(wal_files', k, seq_no + 1)

C6_SeqNoRecovered ==
    /\ [](fresh = "close" => seq_no = at_end.logged /\ at_end.logged <= at_end.seq_no)
    /\ [][C6_NextPut]_vars

\* the re-opened database recovered less than the seq_no at close
C6_Witness ==
    /\ fresh = "close"
    /\ seq_no < at_end.seq_no
    /\ seq_no > 0

\* C7: on an open handle a put or delete with an empty key, a key over
\* MAX_KEY_BYTES or a value over MAX_VALUE_BYTES raises the validation
\* error, adds exactly 1 to seq_no and leaves the memtable, the WAL segments
\* and the write position as they were.
C7_RejectedStep ==
    (db_state = "open" /\ (Called("put") \/ Called("delete")) /\ ~last_call'.valid) =>
        /\ last_call'.result = "ValueError"
        /\ ~last_call'.inserted
        /\ seq_no' = seq_no + 1
        /\ memtable' = memtable
        /\ wal_files' = wal_files
        /\ wal' = wal

C7_Rejected == [][C7_RejectedStep]_vars

\* a call was rejected while the memtable and the WAL held data
C7_Witness ==
    /\ db_state = "open"
    /\ last_call.op \in {"put", "delete"}
    /\ ~last_call.valid
    /\ last_call.result = "ValueError"
    /\ memtable # <<>>
    /\ wal.write_position > 0

\* C8: every entry of the memtable has a PUT/DELETE record of the same key
\* and sequence in a WAL segment, and a put or delete whose WAL append
\* fails ends with that error and the memtable as it was.
C8_MemtableLogged ==
    \A i \in 1..Len(memtable) : Logged(wal_files, memtable[i].key, memtable[i].value.sequence)

C8_AppendFailedStep ==
    ((Called("put") \/ Called("delete")) /\ ~last_call'.inserted) =>
        /\ last_call'.result # "ok"
        /\ memtable' = memtable

C8_WalBeforeMemtable ==
    /\ []C8_MemtableLogged
    /\ [][C8_AppendFailedStep]_vars

\* a WAL append failed while the memtable held an entry
C8_Witness ==
    /\ last_call.op \in {"put", "delete"}
    /\ last_call.valid
    /\ last_call.result \in {"OSError", "IOError"}
    /\ ~last_call.inserted
    /\ memtable # <<>>

\* C9: a put that inserted runs the flush procedure exactly when the entry
\* count after the insert is at least memtable_flush_threshold, and after
\* every successful put the memtable holds fewer entries than that.
C9_PutStep ==
    /\ (Called("put") /\ last_call'.inserted) =>
          (last_call'.flush # "none" <=> SkipList_size(memtable) + 1 >= memtable_flush_threshold)
    /\ (Called("put") /\ last_call'.result = "ok") =>
          SkipList_size(memtable') < memtable_flush_threshold

C10_DeleteFlushes ==
    (db_state = "open" /\ last_call.op = "delete" /\ last_call.result = "ok") =>
        SkipList_size(memtable) < memtable_flush_threshold

\* C11: once the put that fills the memtable with memtable_flush_threshold
\* distinct keys has returned, an SSTable file exists inside
\* base_path/sstables/, a WAL segment ends with the FLUSH marker, and get of
\* each key written through the handle returns its value.
C11_FlushedReadable ==
    (db_state = "open" /\ last_call.op = "put" /\ last_call.result = "ok"
        /\ last_call.flush = "done") =>
        /\ IterDir(sst_files, sstables_dir) # {}
        /\ \E p \in DOMAIN wal_files : has_flush_marker_at_end(wal_files[p])
        /\ \A k \in here \ dirty : acked[k] # None => Visible[k] = acked[k]

\* the highest sequence of a FLUSH marker in the WAL segments, 0 without one
LastFlushSequence ==
    LET marks == UNION {{wal_files[p][i].sequence :
                           i \in {j \in 1..Len(wal_files[p]) :
                                    wal_files[p][j].op = OpTypeValue("FLUSH")}} :
                        p \in DOMAIN wal_files}
    IN  IF marks = {} THEN 0 ELSE CHOOSE m \in marks : \A n \in marks : n <= m

\* C12: right after open() the memtable holds no record of a segment that
\* ends with a FLUSH marker and every PUT/DELETE record of every other
\* segment, so it holds only entries written after the most recent flush.
C12_ReplayedAfterLastFlush ==
    (db_state = "open" /\ last_call.op = "open") =>
        /\ \A i \in 1..Len(memtable) :
              Logged([p \in {q \in DOMAIN wal_files : ~has_flush_marker_at_end(wal_files[q])}
                        |-> wal_files[p]],
                     memtable[i].key, memtable[i].value.sequence)
        /\ \A p \in DOMAIN wal_files : ~has_flush_marker_at_end(wal_files[p]) =>
              \A j \in 1..Len(wal_files[p]) :
                 wal_files[p][j].op # OpTypeValue("FLUSH") =>
                    \E i \in 1..Len(memtable) :
                        /\ memtable[i].key = wal_files[p][j].key
                        /\ memtable[i].value.sequence = wal_files[p][j].sequence
        /\ \A i \in 1..Len(memtable) : memtable[i].value.sequence > LastFlushSequence

\* C14: in every WAL segment a FLUSH record is the last record.
C14_FlushMarkerLast ==
    \A p \in DOMAIN wal_files : \A i \in 1..Len(wal_files[p]) :
        wal_files[p][i].op = OpTypeValue("FLUSH") => i = Len(wal_files[p])

\* C15: for every FLUSH marker in a WAL segment, the SSTable file it names
\* is finalized and holds, for every PUT/DELETE record that precedes the
\* marker in the segment, an entry of the key with at least its sequence.
C15_MarkerNamesSSTable ==
    \A p \in DOMAIN wal_files : \A i \in 1..Len(wal_files[p]) :
        wal_files[p][i].op = OpTypeValue("FLUSH") =>
            \E f \in DOMAIN sst_files :
                /\ <<f.name, f.ts>> = wal_files[p][i].key[2]
                /\ sst_files[f].finalized
                /\ \A j \in 1..(i - 1) :
                      wal_files[p][j].op # OpTypeValue("FLUSH") =>
                         \E e \in 1..Len(sst_files[f].data) :
                             /\ sst_files[f].data[e].key = wal_files[p][j].key
                             /\ sst_files[f].data[e].sequence >= wal_files[p][j].sequence

\* C16: a put whose flush fails leaves the WAL on the same segment with no
\* new FLUSH marker, keeps the memtable entries, and leaves no SSTable file
\* that is not finalized.
C16_FailedFlushStep ==
    (Called("put") /\ last_call'.flush = "failed") =>
        /\ wal'.current_path = wal.current_path
        /\ ~has_flush_marker_at_end(wal_files'[wal.current_path])
        /\ Len(memtable') = Len(memtable) + 1
        /\ \A f \in DOMAIN sst_files' : sst_files'[f].finalized

C16_FailedFlush == [][C16_FailedFlushStep]_vars

\* C17: a finalized SSTable file is never modified, truncated or replaced.
C17_FinalizedStep ==
    \A f \in DOMAIN sst_files :
        sst_files[f].finalized => (f \in DOMAIN sst_files' /\ sst_files'[f] = sst_files[f])

C17_SSTableImmutable == [][C17_FinalizedStep]_vars

\* C18: from every persisted state, open() followed by close() and a second
\* open() gives the same get result for every key and the same seq_no as
\* the first open(), whatever order the directory listing has.
C18_ReopenIdempotent ==
    db_state = "closed" =>
        \A o1 \in discover_wal_files(DOMAIN OpenAppend(wal_files, <<clock, 0>>)) :
            LET d1 == Database_init(wal_files, sst_files, o1, clock)
            IN  \A o2 \in discover_wal_files(DOMAIN OpenAppend(d1.wal_files, <<clock, 0>>)) :
                    LET d2 == Database_init(d1.wal_files, d1.sst_files, o2, clock)
                    IN  /\ d2.seq_no = d1.seq_no
                        /\ \A k \in Keys :
                              Database_get(d2.memtable, d2.sst_files, k)
                                = Database_get(d1.memtable, d1.sst_files, k)

\* the SSTable files Database.get consults, newest first: the finalized
\* files of the sstables directory
Sources == SortNewestFirst({p \in IterDir(sst_files, sstables_dir) : sst_files[p].finalized})

\* the entry add_entry accepted for the key into the file, NoEntry without one
Written(p, key) ==
    IF \E i \in 1..Len(added[p]) : added[p][i].key = key
    THEN added[p][CHOOSE i \in 1..Len(added[p]) : added[p][i].key = key]
    ELSE NoEntry

\* the entry of the first file of paths that was written an entry of the key
RECURSIVE FirstWritten(_, _)
FirstWritten(paths, key) ==
    IF paths = <<>> THEN NoEntry
    ELSE IF Written(Head(paths), key) # NoEntry THEN Written(Head(paths), key)
    ELSE FirstWritten(Tail(paths), key)

\* the entry of the first source that contains the key: the memtable, then
\* the SSTables by descending timestamp suffix
FirstSource(key) ==
    IF SkipList_search(memtable, key) # NoEntry THEN SkipList_search(memtable, key)
    ELSE FirstWritten(Sources, key)

\* C13: get(K) is decided by the first source that contains K, the memtable
\* and then the SSTables by descending timestamp suffix: the value of a PUT,
\* not-found for a tombstone, not-found when no source contains K.
C13_FirstSourceDecides ==
    db_state = "open" =>
        \A k \in Keys :
            Database_get(memtable, sst_files, k)
                = IF FirstSource(k) = NoEntry \/ is_tombstone(FirstSource(k)) THEN None
                  ELSE FirstSource(k).value

\* the keys of the data region are strictly increasing
StrictlyIncreasing(data) ==
    \A i \in 1..Len(data) : \A j \in 1..Len(data) : i < j => data[i].key < data[j].key

\* the step is an add_entry call: it alone takes a sequence number and leaves the WAL
SstAdded == sst_result'.op = "add" /\ seq_no' = seq_no + 1 /\ wal_files' = wal_files

\* C19: add_entry raises a validation error for every entry whose key is not
\* greater than the last accepted key and writes nothing, and the keys of
\* every data region are strictly increasing.
C19_SortedStep ==
    /\ (SstAdded /\ sst_writer.last_key # None /\ sst_result'.key <= sst_writer.last_key) =>
          (sst_result'.result = "ValueError" /\ sst_files' = sst_files)
    /\ \A p \in DOMAIN sst_files' : StrictlyIncreasing(sst_files'[p].data)

C19_SortedKeys == [][C19_SortedStep]_vars

\* an add_entry of a well-formed entry was refused for its key alone
C19_Witness ==
    /\ sst_writer # NoWriter
    /\ sst_result.op = "add"
    /\ sst_result.result = "ValueError"
    /\ sst_result.key \in Keys
    /\ sst_writer.last_key # None
    /\ sst_result.key <= sst_writer.last_key
    /\ sst_files[sst_writer.filepath].data # <<>>

\* the first record of the data region a get of the key scans
ScanStart(file, key) ==
    IF \E i \in 1..Len(file.data) : EntryOffset(file.data, i) = find_scan_start(file, key)
    THEN CHOOSE i \in 1..Len(file.data) : EntryOffset(file.data, i) = find_scan_start(file, key)
    ELSE Len(file.data) + 1

\* C20: a reader opens every finalized SSTable; get(K) returns the entry
\* written for K, or not-found when none was; and no record before the
\* scan start the index gives for K has a key as great as K.
C20_ReaderFindsWritten ==
    \A p \in DOMAIN sst_files : sst_files[p].finalized =>
        /\ SSTableReader_opens(sst_files[p])
        /\ \A k \in SstKeys :
              /\ SSTableReader_get(sst_files[p], k) = Written(p, k)
              /\ \A i \in 1..(ScanStart(sst_files[p], k) - 1) : sst_files[p].data[i].key < k

\* C21: for every entry the writer accepted, decoding its SSTable encoding
\* gives an entry with the same key, sequence, kind and value.
C21_SSTableRoundTrip ==
    \A p \in DOMAIN added : \A i \in 1..Len(added[p]) :
        /\ deserialize_entry(serialize_entry(added[p][i])) = added[p][i]
        /\ deserialize_entry(sst_files[p].data[i]) = added[p][i]

\* C24: the memtable holds at most one entry per key, and search(k) returns
\* the entry of the node of k that was linked last, the one nearest the head.
C24_InsertReplaces ==
    /\ \A i \in 1..Len(memtable) : \A j \in 1..Len(memtable) :
          i # j => memtable[i].key # memtable[j].key
    /\ \A i \in 1..Len(memtable) :
          (\A j \in 1..(i - 1) : memtable[j].key # memtable[i].key) =>
              SkipList_search(memtable, memtable[i].key) = memtable[i].value

\* the keys of the entries are strictly increasing
IncreasingKeys(entries) ==
    \A i \in 1..Len(entries) : \A j \in 1..Len(entries) : i < j => entries[i].key < entries[j].key

\* C29: the ordered traversal of the memtable, which a flush passes to
\* add_entry, has strictly increasing keys after every step, and no put
\* without an I/O fault ends with a failed flush.
C29_FlushOrderStep ==
    /\ IncreasingKeys(SkipList_iter(memtable'))
    /\ (Called("put") /\ faults' = faults) => last_call'.flush # "failed"

C29_FlushOrder == [][C29_FlushOrderStep]_vars

\* C28: constructing an entry raises a validation error for an empty key,
\* for a negative sequence, for a PUT without a value and for a DELETE with
\* a value; an entry that was constructed has a non-empty key, a sequence
\* >= 0, and a value exactly when it is a PUT.
C28_EntryValidated ==
    made.result # "none" =>
        /\ KeyBytes(made.key) = 0 => made.result = "ValueError"
        /\ made.sequence < 0 => made.result = "ValueError"
        /\ (made.entry_type = "PUT" /\ made.value = None) => made.result = "ValueError"
        /\ (made.entry_type = "DELETE" /\ made.value # None) => made.result = "ValueError"
        /\ made.result = "ok" =>
              /\ KeyBytes(made.key) > 0
              /\ made.sequence >= 0
              /\ (made.value # None) <=> (made.entry_type = "PUT")

\* a DELETE with the value b"" and otherwise valid arguments was refused
C28_Witness ==
    /\ made.result = "ValueError"
    /\ made.entry_type = "DELETE"
    /\ made.value = 0
    /\ made.key \in Keys
    /\ made.sequence >= 0


C25_SizeBounds ==
    /\ MAX_KEY_BYTES = 65536 /\ MAX_KEY_BYTES = MAX_KEY_SIZE
    /\ MAX_VALUE_BYTES = 1048576 /\ MAX_VALUE_BYTES = MAX_VALUE_SIZE
    /\ (wal_result.op = "write" /\ ~wal_result.closed) =>
          LET entry == wal_result.entry
              key_fits == KeyBytes(entry.key) <= 65536
              value_fits == entry.entry_type = "DELETE" \/ ValueBytes(entry.value) <= 1048576
          IN  /\ (key_fits /\ value_fits) <=> wal_result.result = "ok"
              /\ ~key_fits =>
                    /\ wal_result.result = "ValueError"
                    /\ wal_result.message = "key exceeds max size"
              /\ (key_fits /\ ~value_fits) =>
                    /\ wal_result.result = "ValueError"
                    /\ wal_result.message = "value exceeds max size"

\* a key of exactly 65,536 bytes with a value of exactly 1,048,576 bytes was accepted
C25_Witness ==
    /\ wal_result.op = "write"
    /\ ~wal_result.closed
    /\ wal_result.entry.key = BigKey
    /\ wal_result.entry.value = BigValue
    /\ wal_result.result = "ok"

\* C26: a call made between close() and the next open leaves every segment
\* and the memtable as they were; write_to_log and rotate raise the state
\* error, put and delete fail.
C26_ClosedStep ==
    (db_state = "closed" /\ db_state' = "closed" /\ seq_no' # seq_no) =>
        /\ wal_files' = wal_files
        /\ memtable' = memtable
        /\ \/ /\ last_call' = last_call
              /\ wal_result'.op \in {"write", "rotate"}
              /\ wal_result'.sequence = seq_no'
              /\ wal_result'.result = "RuntimeError"
           \/ /\ wal_result' = wal_result
              /\ last_call'.op \in {"put", "delete"}
              /\ last_call'.result = "RuntimeError"

C26_ClosedRejects == [][C26_ClosedStep]_vars

\* after close(), a rotate was refused and then a put failed on a memtable that holds an entry
C26_Witness ==
    /\ db_state = "closed"
    /\ wal_result.op = "rotate"
    /\ wal_result.closed
    /\ wal_result.result = "RuntimeError"
    /\ last_call.op = "put"
    /\ last_call.result = "RuntimeError"
    /\ Len(memtable) > 0

\* C30: the offset returned by an accepted write_to_log is the place of the
\* record in its segment: read_log_entry at that offset returns the entry
\* that was written.
C30_OffsetLocatesRecord ==
    (wal_result.op = "write" /\ wal_result.result = "ok") =>
        LET r == read_log_entry(wal_files[wal_result.path], wal_result.offset)
        IN  /\ r.result = "ok"
            /\ r.entry = WALEntry_from_database_entry(wal_result.entry)


\* the entries written to the file other than the one whose record was hit
Untouched ==
    IF segment.hit = 0 THEN segment.written
    ELSE [i \in 1..(Len(segment.written) - 1) |->
              segment.written[IF i < segment.hit THEN i ELSE i + 1]]

\* C23: read_all of a segment in which one record fails its checks yields
\* every other record of the segment, those before it and those after it,
\* in file order.
C23_CorruptRecordSkipped ==
    segment.read => segment.entries = Untouched


\* C27: a reader that opened found a header with the magic of the format
\* and with a stored CRC equal to the checksum of the header.
C27_HeaderVerified ==
    opened.result = "ok" =>
        /\ opened.file.magic = SSTABLE_MAGIC
        /\ HeaderCrcMatches(opened.file)


\* the (key, offset) pairs of the entries at positions 0, N, 2N, ... of a data region
ExpectedIndex(data, interval) ==
    [j \in 1..((Len(data) + interval - 1) \div interval) |->
        [key |-> data[(j - 1) * interval + 1].key,
         file_offset |-> EntryOffset(data, (j - 1) * interval + 1)]]

\* C31: the sparse index of a writer holds exactly one pair for each of the
\* accepted entries at positions 0, N, 2N, ..., its key with the offset at
\* which its record begins, in that order.
C31_SparseIndex ==
    sst_writer # NoWriter =>
        sst_writer.index_entries =
            ExpectedIndex(sst_files[sst_writer.filepath].data, sst_writer.index_interval)

\* C40: an add_entry call that raises leaves the writer, with its sparse
\* index, and every file as they were.
C40_RejectedStep ==
    (SstAdded /\ sst_result'.result = "ValueError") =>
        (sst_writer' = sst_writer /\ sst_files' = sst_files)

C40_RejectedAddNoEffect == [][C40_RejectedStep]_vars


C35_DeleteStep ==
    (list_call'.op = "delete" /\ list_call'.sequence # list_call.sequence) =>
        /\ SkipList_search(memtable', list_call'.key) = NoEntry
        /\ \A k \in Keys \ {list_call'.key} :
              SkipList_search(memtable', k) = SkipList_search(memtable, k)
        /\ SkipList_search(memtable, list_call'.key) = NoEntry => memtable' = memtable

C35_DeleteRemoves == [][C35_DeleteStep]_vars


\* C32: a with block over an SSTableWriter that ends without an error calls
\* finalize(), and the file is then at the writer's path with its final
\* header, the writer's index and the footer; one that an error leaves
\* calls discard(), and no file is then at the writer's path.
C32_ScopeStep ==
    (sst_writer # NoWriter /\ sst_writer' = NoWriter /\ sst_result' # sst_result) =>
        LET path == sst_writer.filepath
        IN  /\ sst_result'.op = "exit on error" =>
                  /\ sst_result'.result = "discard"
                  /\ path \notin DOMAIN sst_files'
            /\ sst_result'.op = "exit" =>
                  /\ sst_result'.result = "finalize"
                  /\ path \in DOMAIN sst_files'
                  /\ sst_files'[path].finalized
                  /\ sst_files'[path].magic = SSTABLE_MAGIC
                  /\ sst_files'[path].entry_count = sst_writer.entry_count
                  /\ sst_files'[path].data_size = sst_writer.position - SST_HEADER_SIZE
                  /\ HeaderCrcMatches(sst_files'[path])
                  /\ sst_files'[path].index = sst_writer.index_entries
                  /\ sst_files'[path].data = sst_files[path].data

Readable(files) == [p \in {q \in DOMAIN files : SSTableReader_opens(files[q])} |-> files[p]]

\* C33: get(K) skips an SSTable whose reader fails and goes on with the next
\* older file: it returns what it returns with the failing files out of the
\* directory, which is not-found when no file that opens resolves K.
C33_FailedReaderSkipped ==
    \A k \in SstKeys :
        Database_get(memtable, sst_files, k) = Database_get(memtable, Readable(sst_files), k)

\* the newest file holds k and does not open, the older file resolves k
C33_Witness ==
    \E p, q \in DOMAIN sst_files, k \in SstKeys :
        /\ p.ts > q.ts
        /\ ~SSTableReader_opens(sst_files[p])
        /\ \E i \in 1..Len(sst_files[p].data) : deserialize_entry(sst_files[p].data[i]).key = k
        /\ SSTableReader_opens(sst_files[q])
        /\ SSTableReader_get(sst_files[q], k) # NoEntry
        /\ SkipList_search(memtable, k) = NoEntry
        /\ Database_get(memtable, sst_files, k) # None


\* the entries an SSTable file holds for key k
EntriesFor(file, k) ==
    {deserialize_entry(file.data[i]) : i \in {j \in 1..Len(file.data) :
                                               deserialize_entry(file.data[j]).key = k}}

\* the SSTable files that finalize() has completed
Finalized == {p \in DOMAIN sst_files : SSTableReader_opens(sst_files[p])}

\* C36: the order of the read path is the order of the sequence numbers: the
\* memtable entry for K has a sequence number no smaller than every SSTable
\* entry for K, and an SSTable with a later timestamp holds for K a sequence
\* number no smaller than every older SSTable.
C36_ReadOrderIsSequenceOrder ==
    \A k \in Keys, p \in Finalized :
        \A e \in EntriesFor(sst_files[p], k) :
            /\ SkipList_search(memtable, k) # NoEntry =>
                  SkipList_search(memtable, k).sequence >= e.sequence
            /\ \A q \in Finalized :
                  q.ts > p.ts => \A f \in EntriesFor(sst_files[q], k) : f.sequence >= e.sequence


\* C37: a put or delete that raises is invisible: get(K) returns for every
\* key what it returned before the call.
C37_FailedStep ==
    ((Called("put") \/ Called("delete")) /\ last_call'.result # "ok") =>
        \A k \in Keys :
            Database_get(memtable', sst_files', k) = Database_get(memtable, sst_files, k)

C37_FailedCallInvisible == [][C37_FailedStep]_vars


\* C38: over all WAL segments no two records have the same sequence number,
\* and within each segment the sequence numbers strictly increase.
C38_SequencesUnique ==
    /\ \A p \in DOMAIN wal_files : \A i, j \in 1..Len(wal_files[p]) :
          i < j => wal_files[p][i].sequence < wal_files[p][j].sequence
    /\ \A p, q \in DOMAIN wal_files : \A i \in 1..Len(wal_files[p]), j \in 1..Len(wal_files[q]) :
          (p # q) => wal_files[p][i].sequence # wal_files[q][j].sequence


\* a record written after a reopen, into another segment than the two
\* records written before the close
C38_Witness ==
    /\ opens >= 1
    /\ last_call.op \in {"put", "delete"}
    /\ last_call.result = "ok"
    /\ \E p, q \in DOMAIN wal_files :
          /\ p # q
          /\ Len(wal_files[p]) >= 2
          /\ Len(wal_files[q]) >= 1
          /\ wal_files[q][Len(wal_files[q])].sequence = seq_no
          /\ \A i \in 1..Len(wal_files[p]) : wal_files[p][i].sequence < seq_no


\* C39: read_all_entries terminates on every file content: each pass through
\* its loop yields one entry and advances by the length of its record,
\* advances by one byte after a corrupted entry, or leaves the loop; the
\* position never passes the end of the file, so a file of n bytes is read
\* in at most n + 1 passes.
C39_ReadStep ==
    (segment'.steps = segment.steps + 1) =>
        /\ segment'.position <= Len(segment.bytes)
        /\ segment'.steps <= Len(segment.bytes) + 1
        /\ \/ /\ Len(segment'.entries) = Len(segment.entries) + 1
              /\ segment'.position >= segment.position + WAL_HEADER_SIZE
              /\ ~segment'.done
           \/ /\ segment'.entries = segment.entries
              /\ segment'.position = segment.position + 1
           \/ /\ segment'.entries = segment.entries
              /\ segment'.position = segment.position
              /\ segment'.done

C39_ReadTerminates == [][C39_ReadStep]_vars

\* a damaged file read to the end: an entry was yielded, a corrupted entry
\* was stepped over, and the loop was left
C39_Witness ==
    /\ segment.done
    /\ segment.hit > 0
    /\ Len(segment.entries) >= 1
    /\ segment.steps >= Len(segment.entries) + 2
    /\ segment.position > 0

==========================================================================
